---- MODULE Spec2Model ----
(***************************************************************************)
(* ClassMe: the per-class privilege store and the server actions that      *)
(* assign and remove privileges.  Every server action is a request that    *)
(* runs as a sequence of awaited store operations; the steps of different  *)
(* requests interleave freely, since no action opens a transaction.        *)
(***************************************************************************)
EXTENDS Integers, FiniteSets, Sequences, TLC

\* ------------------------------------------------------------------ bounds
\* Number of requests that can be in flight at the same time.
NumProcs == 2

\* Number of hafalan records the store holds at most.
MaxHafalan == 2

Procs == 1..NumProcs

\* ------------------------------------------------------------ identifiers
NoId == "null"

\* The users table: two admins, three students, a dosen, the deactivated admin X1,
\* and X2, an admin when the session token was issued and stored as a dosen since.
Users == {"A1", "A2", "S1", "S2", "S3", "D1", "X1", "X2"}
Classes == {"C1", "C2"}
Semesters == {"T1", "T2"}

\* users.userType of the users present when the interleavings start (Prisma enum
\* UserType).
SeedUserType(u) ==
  CASE u \in {"A1", "A2", "X1"} -> "ADMIN"
    [] u \in {"D1", "X2"} -> "DOSEN"
    [] OTHER -> "MAHASISWA"

\* users.isActive as stored.
IsActive(u) == u # "X1"

\* The userType that createSession signed into the token the cookie carries.
TokenUserType(cookie) ==
  CASE cookie \in {"A1", "A2", "X1", "X2"} -> "admin"
    [] cookie = "D1" -> "dosen"
    [] OTHER -> "mahasiswa"

\* groups.classId and fan_ilmu.classId.
GroupClass == [G1 |-> "C1", G2 |-> "C1", G3 |-> "C2"]
FanIlmuClass == [F1 |-> "C1", F2 |-> "C2"]
Groups == DOMAIN GroupClass
FanIlmus == DOMAIN FanIlmuClass

\* class_enrollments rows present when the interleavings start.
InitEnrollments ==
  { [id |-> "E1", userId |-> "S1", classId |-> "C1", semesterId |-> "T1",
     status |-> "ACTIVE"],
    [id |-> "E2", userId |-> "S2", classId |-> "C1", semesterId |-> "T1",
     status |-> "ACTIVE"],
    [id |-> "E3", userId |-> "S3", classId |-> "C1", semesterId |-> "T1",
     status |-> "INACTIVE"] }

\* The ids (uuids) the database hands to the enrollment rows created later.
NewEnrollmentIds == {"E4", "E5"}

\* ------------------------------------------------------------------ enums
PrismaMahasiswaPrivilegeType ==
  {"KETUA_UMUM", "KETUA_KELOMPOK", "KAMTIB", "KETUA_FAN_ILMU", "SEKRETARIS", "BENDAHARA"}

PrismaDosenPrivilegeType ==
  {"DOSEN_PENDAMPING", "WALI_KELAS", "PENGURUS_HAFALAN", "PENGURUS_CAPAIAN_MATERI",
   "PENGURUS_KELAS"}

\* The declared parameter types (admin/privileges.ts 15-20 and
\* ketua-umum/privileges.ts 17-22).
DosenPrivilegeType ==
  {"dosen_pendamping", "wali_kelas", "pengurus_hafalan", "pengurus_capaian_materi",
   "pengurus_kelas"}

MahasiswaPrivilegeType ==
  {"ketua_kelompok", "kamtib", "ketua_fan_ilmu", "sekretaris", "bendahara"}

\* String.prototype.toUpperCase on the strings a request can carry.
ToUpperCase(s) ==
  CASE s \in {"ketua_umum", "Ketua_Umum", "KETUA_UMUM"} -> "KETUA_UMUM"
    [] s \in {"ketua_kelompok", "KETUA_KELOMPOK"} -> "KETUA_KELOMPOK"
    [] s \in {"kamtib", "KAMTIB"} -> "KAMTIB"
    [] s \in {"ketua_fan_ilmu", "KETUA_FAN_ILMU"} -> "KETUA_FAN_ILMU"
    [] s \in {"sekretaris", "Sekretaris", "SEKRETARIS"} -> "SEKRETARIS"
    [] s \in {"bendahara", "BENDAHARA"} -> "BENDAHARA"
    [] s \in {"pengurus_hafalan", "PENGURUS_HAFALAN"} -> "PENGURUS_HAFALAN"
    [] s \in {"wali_kelas", "WALI_KELAS"} -> "WALI_KELAS"
    [] s \in {"dosen_pendamping", "DOSEN_PENDAMPING"} -> "DOSEN_PENDAMPING"
    [] s \in {"pengurus_kelas", "PENGURUS_KELAS"} -> "PENGURUS_KELAS"
    [] s \in {"pengurus_capaian_materi", "PENGURUS_CAPAIAN_MATERI"} -> "PENGURUS_CAPAIAN_MATERI"
    [] s \in {"wakil", "WAKIL"} -> "WAKIL"
    [] OTHER -> s

toMahasiswaPrismaEnum(type) == ToUpperCase(type)

\* The conversion left out: the request's string goes to the query as it is.
toDosenPrismaEnumAsGiven(type) == type

toDosenPrismaEnum(type) == ToUpperCase(type)

\* The scope arguments a request carries with a privilege kind: a group for
\* ketua_kelompok, a study area for ketua_fan_ilmu, or none.
ScopesFor(type, groupIds, fanIlmuIds) ==
  IF ToUpperCase(type) = "KETUA_KELOMPOK"
  THEN {[groupId |-> g, fanIlmuId |-> NoId] : g \in groupIds \cup {NoId}}
  ELSE IF ToUpperCase(type) = "KETUA_FAN_ILMU"
  THEN {[groupId |-> NoId, fanIlmuId |-> f] : f \in fanIlmuIds \cup {NoId}}
  ELSE {[groupId |-> NoId, fanIlmuId |-> NoId]}

\* session.ts userTypeToString: the stored enum to the session's lowercase role.
userTypeToString(userType) ==
  CASE userType = "ADMIN" -> "admin"
    [] userType = "DOSEN" -> "dosen"
    [] OTHER -> "mahasiswa"

\* ------------------------------------------------------------------ state
VARIABLES
  classEnrollments,     \* class_enrollments rows
  mahasiswaPrivileges,  \* mahasiswa_privileges rows
  dosenPrivileges,      \* dosen_privileges rows
  hafalanRecords,       \* hafalan_records rows
  req,                  \* req[p]: the request process p is serving, and its locals
  lastCall,             \* the request that returned last, if a successful assignKetuaUmum
  users,                \* users rows: id |-> userType
  classes               \* ids of the classes rows

vars ==
  <<classEnrollments, mahasiswaPrivileges, dosenPrivileges, hafalanRecords, req, lastCall,
    users, classes>>

\* users.userType as stored; no value for an id without a row.
StoredUserType(u) == IF u \in DOMAIN users THEN users[u] ELSE NoId

\* The users and classes rows present when the interleavings start.
SeedUsers == [u \in Users |-> SeedUserType(u)]

NoRow == [gone |-> FALSE]
\* What a request holds of a row it read once the row has been deleted: the row's
\* id is a uuid that no later row carries, so a delete by that id finds nothing.
GoneRow == [gone |-> TRUE]

NoCall == [userId |-> NoId, classId |-> NoId]

Idle ==
  [ op |-> "none", pc |-> "idle", actor |-> NoId, classId |-> NoId, userId |-> NoId,
    privilegeType |-> NoId, groupId |-> NoId, fanIlmuId |-> NoId,
    session |-> NoId, enrollmentId |-> NoId, hafalanId |-> NoId, status |-> NoId,
    semesterId |-> NoId, existing |-> NoRow, reads |-> <<>>, granted |-> FALSE,
    lapsed |-> FALSE, storageFailed |-> FALSE, userType |-> NoId,
    result |-> "none", privileges |-> {}, mutated |-> FALSE, wasKU |-> FALSE, torn |-> FALSE ]

Init ==
  /\ classEnrollments = InitEnrollments
  /\ mahasiswaPrivileges = {}
  /\ dosenPrivileges = {}
  /\ hafalanRecords = {}
  /\ req = [p \in Procs |-> Idle]
  /\ lastCall = NoCall
  /\ users = SeedUsers
  /\ classes = Classes

\* -------------------------------------------------------------- the store
\* The enrollment lookup without the filter on the class.
EnrollmentsInAnyClass(userId, classId) ==
  {e \in classEnrollments : e.userId = userId /\ e.status = "ACTIVE"}

\* The enrollment lookup without the filter on the status.
EnrollmentsOfAnyStatus(userId, classId) ==
  {e \in classEnrollments : e.userId = userId /\ e.classId = classId}

\* prisma.classEnrollment.findFirst({where: {userId, classId, status: "ACTIVE"}}):
\* the rows the query matches; findFirst returns any one of them, or null.
ActiveEnrollments(userId, classId) ==
  {e \in classEnrollments :
     e.userId = userId /\ e.classId = classId /\ e.status = "ACTIVE"}

\* prisma.mahasiswaPrivilege.findFirst({where: {enrollmentId, classId, privilegeType}}).
PrivilegeRows(enrollmentId, classId, privilegeType) ==
  {r \in mahasiswaPrivileges :
     r.enrollmentId = enrollmentId /\ r.classId = classId /\ r.privilegeType = privilegeType}

\* The rows of one kind in one class ({where: {classId, privilegeType}}).
ClassRows(classId, privilegeType) ==
  {r \in mahasiswaPrivileges : r.classId = classId /\ r.privilegeType = privilegeType}

hasMahasiswaPrivilege(userId, classId, privilegeType) ==
  \E e \in ActiveEnrollments(userId, classId) :
    PrivilegeRows(e.id, classId, toMahasiswaPrismaEnum(privilegeType)) # {}

isKetuaUmum(userId, classId) == hasMahasiswaPrivilege(userId, classId, "ketua_umum")

\* The insert check of a mahasiswa_privileges table that has no unique index.
MahasiswaInsertAcceptedWithoutIndex(row) ==
  /\ row.privilegeType \in PrismaMahasiswaPrivilegeType
  /\ \E e \in classEnrollments : e.id = row.enrollmentId
  /\ row.classId \in classes
  /\ row.assignedBy \in DOMAIN users \cup {NoId}
  /\ row.groupId \in Groups \cup {NoId}
  /\ row.fanIlmuId \in FanIlmus \cup {NoId}

\* What the database accepts on insert into mahasiswa_privileges: the enum, the
\* foreign keys, and the unique index (enrollment_id, class_id, privilege_type).
MahasiswaInsertAccepted(row) ==
  /\ row.privilegeType \in PrismaMahasiswaPrivilegeType
  /\ \E e \in classEnrollments : e.id = row.enrollmentId
  /\ row.classId \in classes
  /\ row.assignedBy \in DOMAIN users \cup {NoId}
  /\ row.groupId \in Groups \cup {NoId}
  /\ row.fanIlmuId \in FanIlmus \cup {NoId}
  /\ PrivilegeRows(row.enrollmentId, row.classId, row.privilegeType) = {}

\* getSession: the user the token names must exist and be active; the session is
\* built from the stored user, not from the token.
getSession(cookie) == IF cookie \in DOMAIN users /\ IsActive(cookie) THEN cookie ELSE NoId

\* requireRole deciding on the role the token carries instead of the stored one.
requireRoleFromToken(cookie, allowedRoles) ==
  IF getSession(cookie) = NoId THEN "Unauthorized"
  ELSE IF TokenUserType(cookie) \notin allowedRoles THEN "Forbidden"
       ELSE "ok"

\* requireRole(allowedRoles): "ok", or the message of the error it throws.
requireRole(cookie, allowedRoles) ==
  IF getSession(cookie) = NoId THEN "Unauthorized"
  ELSE IF userTypeToString(StoredUserType(getSession(cookie))) \notin allowedRoles
       THEN "Forbidden"
       ELSE "ok"

\* ------------------------------------------------------- request plumbing
Finish(r, res) == [r EXCEPT !.pc = "done", !.result = res]

\* A delete of the rows D: every request still holding one of them now holds a
\* row that no longer exists.
MarkGone(rq, D) ==
  [q \in Procs |-> IF rq[q].existing \in D THEN [rq[q] EXCEPT !.existing = GoneRow]
                   ELSE rq[q]]

\* A step that reads the store, or touches only the request's locals.
StoreUnchanged ==
  UNCHANGED <<classEnrollments, mahasiswaPrivileges, dosenPrivileges, hafalanRecords,
              lastCall, users, classes>>

\* What lastCall keeps of a returned request.
CallSummary(r) ==
  IF r.op = "assignKetuaUmum" /\ r.result = "success"
  THEN [userId |-> r.userId, classId |-> r.classId]
  ELSE NoCall

\* Whether process p may take up a new request: always when requests interleave;
\* when calls run one at a time, only while no other request is in flight.
Admitted(p, in) == in.oneAtATime => \A q \in Procs \ {p} : req[q].pc = "idle"

\* The response has been delivered; the process can serve the next request.
Return(p) ==
  /\ req[p].pc = "done"
  /\ req' = [req EXCEPT ![p] = Idle]
  /\ lastCall' = CallSummary(req[p])
  /\ UNCHANGED <<classEnrollments, mahasiswaPrivileges, dosenPrivileges, hafalanRecords,
                 users, classes>>

\* ---------------------------------------------------------- assignKetuaUmum
\* admin/privileges.ts 146-155: the request arrives and requireRole(["admin"]) runs.
assignKetuaUmum_requireRole(p, in) ==
  /\ req[p].pc = "idle" /\ Admitted(p, in)
  /\ \E actor \in in.actors, userId \in in.targets, classId \in in.classes :
       LET r == [Idle EXCEPT !.op = "assignKetuaUmum", !.actor = actor,
                             !.userId = userId, !.classId = classId]
       IN req' = [req EXCEPT ![p] =
                    IF requireRole(actor, {"admin"}) # "ok"
                    THEN Finish(r, "Unauthorized")
                    ELSE [r EXCEPT !.session = getSession(actor), !.pc = "findEnrollment"]]
  /\ StoreUnchanged

\* 158-169: the target's active enrollment.
assignKetuaUmum_findEnrollment(p) ==
  /\ req[p].op = "assignKetuaUmum" /\ req[p].pc = "findEnrollment"
  /\ IF ActiveEnrollments(req[p].userId, req[p].classId) = {}
     THEN req' = [req EXCEPT ![p] = Finish(req[p], "NotEnrolled")]
     ELSE \E e \in ActiveEnrollments(req[p].userId, req[p].classId) :
            req' = [req EXCEPT ![p] = [req[p] EXCEPT !.enrollmentId = e.id,
                                                     !.pc = "findExisting"]]
  /\ StoreUnchanged

\* 171-177: findFirst of a KETUA_UMUM row of the class.
assignKetuaUmum_findExisting(p) ==
  /\ req[p].op = "assignKetuaUmum" /\ req[p].pc = "findExisting"
  /\ IF ClassRows(req[p].classId, "KETUA_UMUM") = {}
     THEN req' = [req EXCEPT ![p] = [req[p] EXCEPT !.existing = NoRow, !.pc = "create"]]
     ELSE \E x \in ClassRows(req[p].classId, "KETUA_UMUM") :
            req' = [req EXCEPT ![p] = [req[p] EXCEPT !.existing = x, !.pc = "delete"]]
  /\ StoreUnchanged

\* 179-184: delete({where: {id}}); Prisma throws when no row has that id.
assignKetuaUmum_delete(p) ==
  /\ req[p].op = "assignKetuaUmum" /\ req[p].pc = "delete"
  /\ IF req[p].existing \in mahasiswaPrivileges
     THEN /\ mahasiswaPrivileges' = mahasiswaPrivileges \ {req[p].existing}
          /\ req' = [MarkGone(req, {req[p].existing}) EXCEPT ![p] =
                       [req[p] EXCEPT !.mutated = TRUE, !.pc = "create"]]
     ELSE /\ mahasiswaPrivileges' = mahasiswaPrivileges
          /\ req' = [req EXCEPT ![p] = Finish(req[p], "Failed")]
  /\ UNCHANGED <<classEnrollments, dosenPrivileges, hafalanRecords, lastCall, users, classes>>

KetuaUmumRow(r) ==
  [ enrollmentId |-> r.enrollmentId, classId |-> r.classId, privilegeType |-> "KETUA_UMUM",
    groupId |-> NoId, fanIlmuId |-> NoId, assignedBy |-> r.session ]

\* 186-202: create; a rejected insert (storeOk = FALSE is a storage failure) is caught.
assignKetuaUmum_create(p) ==
  /\ req[p].op = "assignKetuaUmum" /\ req[p].pc = "create"
  /\ \E storeOk \in BOOLEAN :
       IF storeOk /\ MahasiswaInsertAccepted(KetuaUmumRow(req[p]))
       THEN /\ mahasiswaPrivileges' = mahasiswaPrivileges \cup {KetuaUmumRow(req[p])}
            /\ req' = [req EXCEPT ![p] = Finish([req[p] EXCEPT !.mutated = TRUE], "success")]
       ELSE /\ mahasiswaPrivileges' = mahasiswaPrivileges
            /\ req' = [req EXCEPT ![p] = Finish(req[p], "Failed")]
  /\ UNCHANGED <<classEnrollments, dosenPrivileges, hafalanRecords, lastCall, users, classes>>

\* ------------------------------------------------------------ getKetuaUmum
\* admin/privileges.ts 206-207.
getKetuaUmum_requireRole(p, in) ==
  /\ req[p].pc = "idle" /\ Admitted(p, in)
  /\ \E actor \in in.actors, classId \in in.classes :
       LET r == [Idle EXCEPT !.op = "getKetuaUmum", !.actor = actor, !.classId = classId]
       IN req' = [req EXCEPT ![p] =
                    IF requireRole(actor, {"admin"}) # "ok"
                    THEN Finish(r, requireRole(actor, {"admin"}))
                    ELSE [r EXCEPT !.session = getSession(actor), !.pc = "findFirst"]]
  /\ StoreUnchanged

\* Some assignKetuaUmum on the class has deleted the holder it found and has not
\* yet inserted the new one.
ReplacementInFlight(classId) ==
  \E q \in Procs : /\ req[q].op = "assignKetuaUmum" /\ req[q].pc = "create"
                   /\ req[q].classId = classId /\ req[q].mutated

\* 209-238: findFirst of the class's KETUA_UMUM row.  torn records that the read
\* found no row in the middle of a replacement.
getKetuaUmum_findFirst(p) ==
  /\ req[p].op = "getKetuaUmum" /\ req[p].pc = "findFirst"
  /\ IF ClassRows(req[p].classId, "KETUA_UMUM") = {}
     THEN req' = [req EXCEPT ![p] =
                    Finish([req[p] EXCEPT !.torn = ReplacementInFlight(req[p].classId)],
                           "null")]
     ELSE \E x \in ClassRows(req[p].classId, "KETUA_UMUM") :
            req' = [req EXCEPT ![p] = Finish([req[p] EXCEPT !.existing = x], "found")]
  /\ StoreUnchanged

\* --------------------------------------------------------- verifyKetuaUmum
\* ketua-umum/privileges.ts 39-43 as run by assignMahasiswaPrivilege (118-123).
assignMahasiswaPrivilege_getSession(p, in) ==
  /\ req[p].pc = "idle" /\ Admitted(p, in)
  /\ \E actor \in in.actors, userId \in in.targets, classId \in in.classes,
        type \in in.types :
     \E options \in ScopesFor(type, in.groupIds, in.fanIlmuIds) :
       LET r == [Idle EXCEPT !.op = "assignMahasiswaPrivilege", !.actor = actor,
                             !.userId = userId, !.classId = classId,
                             !.privilegeType = type, !.groupId = options.groupId,
                             !.fanIlmuId = options.fanIlmuId]
       IN req' = [req EXCEPT ![p] =
                    IF getSession(actor) = NoId
                    THEN Finish(r, "Unauthorized")
                    ELSE [r EXCEPT !.session = getSession(actor), !.pc = "verifyEnrollment"]]
  /\ StoreUnchanged

\* 39-43 as run by removeMahasiswaPrivilege (199-203).
removeMahasiswaPrivilege_getSession(p, in) ==
  /\ req[p].pc = "idle" /\ Admitted(p, in)
  /\ \E actor \in in.actors, enrollmentId \in in.enrollmentIds, classId \in in.classes,
        type \in in.types :
       LET r == [Idle EXCEPT !.op = "removeMahasiswaPrivilege", !.actor = actor,
                             !.enrollmentId = enrollmentId, !.classId = classId,
                             !.privilegeType = type]
       IN req' = [req EXCEPT ![p] =
                    IF getSession(actor) = NoId
                    THEN Finish(r, "Unauthorized")
                    ELSE [r EXCEPT !.session = getSession(actor), !.pc = "verifyEnrollment"]]
  /\ StoreUnchanged

UsesVerifyKetuaUmum(r) == r.op \in {"assignMahasiswaPrivilege", "removeMahasiswaPrivilege"}

\* isKetuaUmum's first query (permissions.ts 89-103): the actor's active enrollment.
\* existing holds the enrollment found until the second query.
verifyKetuaUmum_enrollment(p) ==
  /\ UsesVerifyKetuaUmum(req[p]) /\ req[p].pc = "verifyEnrollment"
  /\ IF ActiveEnrollments(req[p].session, req[p].classId) = {}
     THEN req' = [req EXCEPT ![p] = Finish(req[p], "Forbidden")]
     ELSE \E e \in ActiveEnrollments(req[p].session, req[p].classId) :
            req' = [req EXCEPT ![p] = [req[p] EXCEPT !.existing = e,
                                                     !.pc = "verifyPrivilege"]]
  /\ StoreUnchanged

\* The row test without the filter on the privilege kind: any privilege row of
\* the enrollment in the class passes.
HoldsAnyPrivilegeRow(enrollmentId, classId) ==
  \E r \in mahasiswaPrivileges : r.enrollmentId = enrollmentId /\ r.classId = classId

\* The row test of isKetuaUmum's second query (permissions.ts 105-117).
HoldsKetuaUmumRow(enrollmentId, classId) ==
  PrivilegeRows(enrollmentId, classId, toMahasiswaPrismaEnum("ketua_umum")) # {}

\* isKetuaUmum's second query and verifyKetuaUmum's throw (45-48).  wasKU records
\* whether the actor was the class's Ketua Umum in the state this step read.
verifyKetuaUmum_privilege(p) ==
  /\ UsesVerifyKetuaUmum(req[p]) /\ req[p].pc = "verifyPrivilege"
  /\ LET r == [req[p] EXCEPT !.existing = NoRow,
                             !.wasKU = isKetuaUmum(req[p].session, req[p].classId)]
     IN req' = [req EXCEPT ![p] =
                  IF ~HoldsKetuaUmumRow(req[p].existing.id, req[p].classId)
                  THEN Finish(r, "Forbidden")
                  ELSE [r EXCEPT !.pc = IF r.op = "assignMahasiswaPrivilege"
                                        THEN "getEnrollmentId" ELSE "deleteMany"]]
  /\ StoreUnchanged

\* ------------------------------------------------- assignMahasiswaPrivilege
\* 141-171: which of the three deleteMany calls, if any, the request issues.
NeedsDelete(r) ==
  \/ r.privilegeType \in {"sekretaris", "bendahara", "kamtib"}
  \/ r.privilegeType = "ketua_kelompok" /\ r.groupId # NoId
  \/ r.privilegeType = "ketua_fan_ilmu" /\ r.fanIlmuId # NoId

\* The rows that deleteMany matches.
DeleteManyRows(r) ==
  IF r.privilegeType \in {"sekretaris", "bendahara", "kamtib"}
  THEN ClassRows(r.classId, toMahasiswaPrismaEnum(r.privilegeType))
  ELSE IF r.privilegeType = "ketua_kelompok"
  THEN {x \in ClassRows(r.classId, "KETUA_KELOMPOK") : x.groupId = r.groupId}
  ELSE {x \in ClassRows(r.classId, "KETUA_FAN_ILMU") : x.fanIlmuId = r.fanIlmuId}

\* The validation with the test for the study area forgotten.
ScopeMissingGroupOnly(r) == r.privilegeType = "ketua_kelompok" /\ r.groupId = NoId

\* 132-139: the two tests of the scope validation.
ScopeMissing(r) ==
  \/ r.privilegeType = "ketua_kelompok" /\ r.groupId = NoId
  \/ r.privilegeType = "ketua_fan_ilmu" /\ r.fanIlmuId = NoId

\* 126-139: the target's active enrollment, then the scope validation.
assignMahasiswaPrivilege_getEnrollmentId(p) ==
  /\ req[p].op = "assignMahasiswaPrivilege" /\ req[p].pc = "getEnrollmentId"
  /\ IF ActiveEnrollments(req[p].userId, req[p].classId) = {}
     THEN req' = [req EXCEPT ![p] = Finish(req[p], "NotEnrolled")]
     ELSE \E e \in ActiveEnrollments(req[p].userId, req[p].classId) :
            LET r == [req[p] EXCEPT !.enrollmentId = e.id]
            IN req' = [req EXCEPT ![p] =
                 IF ScopeMissing(r)
                 THEN Finish(r, "MissingScope")
                 ELSE [r EXCEPT !.pc = IF NeedsDelete(r) THEN "deleteMany" ELSE "create"]]
  /\ StoreUnchanged

\* 143-170: the deleteMany of the previous holder.
assignMahasiswaPrivilege_deleteMany(p) ==
  /\ req[p].op = "assignMahasiswaPrivilege" /\ req[p].pc = "deleteMany"
  /\ mahasiswaPrivileges' = mahasiswaPrivileges \ DeleteManyRows(req[p])
  /\ req' = [MarkGone(req, DeleteManyRows(req[p])) EXCEPT ![p] =
               [req[p] EXCEPT !.mutated = DeleteManyRows(req[p]) # {}, !.pc = "create"]]
  /\ UNCHANGED <<classEnrollments, dosenPrivileges, hafalanRecords, lastCall, users, classes>>

\* 174-183: the row the request inserts.
PrivilegeRow(r) ==
  [ enrollmentId |-> r.enrollmentId, classId |-> r.classId,
    privilegeType |-> toMahasiswaPrismaEnum(r.privilegeType),
    groupId |-> r.groupId, fanIlmuId |-> r.fanIlmuId, assignedBy |-> r.session ]

\* 174-190: create; a rejected insert (storeOk = FALSE is a storage failure) is caught.
assignMahasiswaPrivilege_create(p) ==
  /\ req[p].op = "assignMahasiswaPrivilege" /\ req[p].pc = "create"
  /\ \E storeOk \in BOOLEAN :
       IF storeOk /\ MahasiswaInsertAccepted(PrivilegeRow(req[p]))
       THEN /\ mahasiswaPrivileges' = mahasiswaPrivileges \cup {PrivilegeRow(req[p])}
            /\ req' = [req EXCEPT ![p] = Finish([req[p] EXCEPT !.mutated = TRUE], "success")]
       ELSE /\ mahasiswaPrivileges' = mahasiswaPrivileges
            /\ req' = [req EXCEPT ![p] = Finish(req[p], "Failed")]
  /\ UNCHANGED <<classEnrollments, dosenPrivileges, hafalanRecords, lastCall, users, classes>>

\* ------------------------------------------------- removeMahasiswaPrivilege
\* 206-209: the only test that protects the Ketua Umum grant.
RemoveRefused(privilegeType) == privilegeType = "ketua_umum"

\* 205-224: the refusal, else deleteMany({enrollmentId, classId, privilegeType});
\* a value outside the stored enum makes the query throw.
removeMahasiswaPrivilege_deleteMany(p) ==
  /\ req[p].op = "removeMahasiswaPrivilege" /\ req[p].pc = "deleteMany"
  /\ LET kind == toMahasiswaPrismaEnum(req[p].privilegeType)
         D == PrivilegeRows(req[p].enrollmentId, req[p].classId, kind)
     IN IF RemoveRefused(req[p].privilegeType)
        THEN /\ mahasiswaPrivileges' = mahasiswaPrivileges
             /\ req' = [req EXCEPT ![p] = Finish(req[p], "ProtectedGrant")]
        ELSE IF kind \notin PrismaMahasiswaPrivilegeType
        THEN /\ mahasiswaPrivileges' = mahasiswaPrivileges
             /\ req' = [req EXCEPT ![p] = Finish(req[p], "Failed")]
        ELSE /\ mahasiswaPrivileges' = mahasiswaPrivileges \ D
             /\ req' = [MarkGone(req, D) EXCEPT ![p] =
                          Finish([req[p] EXCEPT !.mutated = D # {}], "success")]
  /\ UNCHANGED <<classEnrollments, dosenPrivileges, hafalanRecords, lastCall, users, classes>>

\* ------------------------------------------------------ the dosen privileges
\* The where clause without the kind: every row of the user in the class.
DosenRowsOfAnyKind(userId, classId, privilegeType) ==
  {r \in dosenPrivileges : r.userId = userId /\ r.classId = classId}

\* prisma.dosenPrivilege.findFirst({where: {userId, classId, privilegeType}}).
DosenRows(userId, classId, privilegeType) ==
  {r \in dosenPrivileges :
     r.userId = userId /\ r.classId = classId /\ r.privilegeType = privilegeType}

hasDosenPrivilege(userId, classId, privilegeType) ==
  DosenRows(userId, classId, toDosenPrismaEnum(privilegeType)) # {}

\* ------------------------------------------------------ permissions helper
\* The predicates of the permissions object (part_005 206-256).
PermissionFns ==
  {"canManageHafalan", "canManageMaterialAchievements", "canEvaluateClass",
   "canManageAttendance", "canAssignMahasiswaPrivileges", "canManageGroups"}

\* A helper in which the hafalan predicate also accepts the wali kelas.
PermissionReadsWithInheritance(fn) ==
  CASE fn = "canManageHafalan" -> <<"pengurus_hafalan", "wali_kelas">>
    [] fn = "canManageMaterialAchievements" -> <<"pengurus_capaian_materi">>
    [] fn = "canEvaluateClass" -> <<"wali_kelas", "pengurus_kelas">>
    [] fn = "canManageAttendance" ->
         <<"wali_kelas", "dosen_pendamping", "pengurus_kelas", "ketua_umum">>
    [] fn = "canAssignMahasiswaPrivileges" -> <<"ketua_umum">>
    [] fn = "canManageGroups" -> <<"wali_kelas", "ketua_umum">>

\* The awaited reads of each predicate, in the order of the code: a dosen kind
\* is a hasDosenPrivilege call, "ketua_umum" is the isKetuaUmum call.  Every
\* read is awaited before the results are combined with ||.
PermissionReads(fn) ==
  CASE fn = "canManageHafalan" -> <<"pengurus_hafalan">>
    [] fn = "canManageMaterialAchievements" -> <<"pengurus_capaian_materi">>
    [] fn = "canEvaluateClass" -> <<"wali_kelas", "pengurus_kelas">>
    [] fn = "canManageAttendance" ->
         <<"wali_kelas", "dosen_pendamping", "pengurus_kelas", "ketua_umum">>
    [] fn = "canAssignMahasiswaPrivileges" -> <<"ketua_umum">>
    [] fn = "canManageGroups" -> <<"wali_kelas", "ketua_umum">>

\* The rule of the predicate request r evaluates, on a store whose dosen rows are
\* rows: a row of one of the dosen kinds it reads, or the Ketua Umum row on an
\* active enrollment when it asks isKetuaUmum.
PermissionHoldsWith(r, rows) ==
  \E i \in 1..Len(PermissionReads(r.op)) :
    LET kind == PermissionReads(r.op)[i]
    IN IF kind = "ketua_umum" THEN isKetuaUmum(r.userId, r.classId)
       ELSE \E x \in rows : /\ x.userId = r.userId /\ x.classId = r.classId
                            /\ x.privilegeType = toDosenPrismaEnum(kind)

\* The requests after a write left the dosen rows `rows`: a call to the helper
\* that has not returned notes when its rule does not hold of the new store.
ObserveDosenRows(rq, rows) ==
  [q \in Procs |->
     IF rq[q].op \in PermissionFns /\ rq[q].pc # "done"
     THEN [rq[q] EXCEPT !.lapsed = @ \/ ~PermissionHoldsWith(rq[q], rows)]
     ELSE rq[q]]

\* The insert check of a dosen_privileges table that has no unique index.
DosenInsertAcceptedWithoutIndex(row) ==
  /\ row.privilegeType \in PrismaDosenPrivilegeType
  /\ row.userId \in DOMAIN users
  /\ row.classId \in classes
  /\ row.assignedBy \in DOMAIN users \cup {NoId}

\* What the database accepts on insert into dosen_privileges: the enum, the
\* foreign keys, and the unique index (user_id, class_id, privilege_type).
DosenInsertAccepted(row) ==
  /\ row.privilegeType \in PrismaDosenPrivilegeType
  /\ row.userId \in DOMAIN users
  /\ row.classId \in classes
  /\ row.assignedBy \in DOMAIN users \cup {NoId}
  /\ DosenRows(row.userId, row.classId, row.privilegeType) = {}

\* admin/privileges.ts 73-83: the request arrives and requireRole(["admin"]) runs.
assignDosenPrivilege_requireRole(p, in) ==
  /\ req[p].pc = "idle" /\ Admitted(p, in)
  /\ \E actor \in in.actors, userId \in in.dosenTargets, classId \in in.classes,
        type \in in.dosenTypes :
       LET r == [Idle EXCEPT !.op = "assignDosenPrivilege", !.actor = actor,
                             !.userId = userId, !.classId = classId,
                             !.privilegeType = type]
       IN req' = [req EXCEPT ![p] =
                    IF requireRole(actor, {"admin"}) # "ok"
                    THEN Finish(r, "Unauthorized")
                    ELSE [r EXCEPT !.session = getSession(actor), !.pc = "findFirst"]]
  /\ StoreUnchanged

\* 86-97: the existence check; a kind outside the stored enum makes the query throw.
assignDosenPrivilege_findFirst(p) ==
  /\ req[p].op = "assignDosenPrivilege" /\ req[p].pc = "findFirst"
  /\ req' = [req EXCEPT ![p] =
               IF toDosenPrismaEnum(req[p].privilegeType) \notin PrismaDosenPrivilegeType
               THEN Finish(req[p], "Failed")
               ELSE IF hasDosenPrivilege(req[p].userId, req[p].classId, req[p].privilegeType)
               THEN Finish(req[p], "DuplicateGrant")
               ELSE [req[p] EXCEPT !.pc = "create"]]
  /\ StoreUnchanged

\* The inserted row stamped with the target instead of the acting admin.
DosenPrivilegeRowStampedWithTarget(r) ==
  [ userId |-> r.userId, classId |-> r.classId,
    privilegeType |-> toDosenPrismaEnum(r.privilegeType), assignedBy |-> r.userId ]

\* 100-105: the row the request inserts.
DosenPrivilegeRow(r) ==
  [ userId |-> r.userId, classId |-> r.classId,
    privilegeType |-> toDosenPrismaEnum(r.privilegeType), assignedBy |-> r.session ]

\* 99-113: create; a rejected insert (storeOk = FALSE is a storage failure) is caught.
assignDosenPrivilege_create(p) ==
  /\ req[p].op = "assignDosenPrivilege" /\ req[p].pc = "create"
  /\ \E storeOk \in BOOLEAN :
       IF storeOk /\ DosenInsertAccepted(DosenPrivilegeRow(req[p]))
       THEN /\ dosenPrivileges' = dosenPrivileges \cup {DosenPrivilegeRow(req[p])}
            /\ req' = ObserveDosenRows(
                        [req EXCEPT ![p] = Finish([req[p] EXCEPT !.mutated = TRUE], "success")],
                        dosenPrivileges \cup {DosenPrivilegeRow(req[p])})
       ELSE /\ dosenPrivileges' = dosenPrivileges
            /\ req' = [req EXCEPT ![p] = Finish(req[p], "Failed")]
  /\ UNCHANGED <<classEnrollments, mahasiswaPrivileges, hafalanRecords, lastCall, users, classes>>

\* 117-126.
removeDosenPrivilege_requireRole(p, in) ==
  /\ req[p].pc = "idle" /\ Admitted(p, in)
  /\ \E actor \in in.actors, userId \in in.dosenTargets, classId \in in.classes,
        type \in in.dosenTypes :
       LET r == [Idle EXCEPT !.op = "removeDosenPrivilege", !.actor = actor,
                             !.userId = userId, !.classId = classId,
                             !.privilegeType = type]
       IN req' = [req EXCEPT ![p] =
                    IF requireRole(actor, {"admin"}) # "ok"
                    THEN Finish(r, "Unauthorized")
                    ELSE [r EXCEPT !.session = getSession(actor), !.pc = "deleteMany"]]
  /\ StoreUnchanged

\* 128-142: deleteMany({userId, classId, privilegeType}).
removeDosenPrivilege_deleteMany(p) ==
  /\ req[p].op = "removeDosenPrivilege" /\ req[p].pc = "deleteMany"
  /\ LET kind == toDosenPrismaEnum(req[p].privilegeType)
         D == DosenRows(req[p].userId, req[p].classId, kind)
     IN IF kind \notin PrismaDosenPrivilegeType
        THEN /\ dosenPrivileges' = dosenPrivileges
             /\ req' = [req EXCEPT ![p] = Finish(req[p], "Failed")]
        ELSE /\ dosenPrivileges' = dosenPrivileges \ D
             /\ req' = ObserveDosenRows(
                         [req EXCEPT ![p] =
                            Finish([req[p] EXCEPT !.mutated = D # {}], "success")],
                         dosenPrivileges \ D)
  /\ UNCHANGED <<classEnrollments, mahasiswaPrivileges, hafalanRecords, lastCall, users, classes>>

\* ---------------------------------------------------------------- enrollment
\* prisma.classEnrollment.findFirst({where: {userId, classId, semesterId}}).
EnrollmentRows(userId, classId, semesterId) ==
  {e \in classEnrollments :
     e.userId = userId /\ e.classId = classId /\ e.semesterId = semesterId}

\* What the database accepts on insert into class_enrollments: the foreign keys
\* and the unique index (user_id, class_id, semester_id).
EnrollmentInsertAccepted(row) ==
  /\ row.userId \in DOMAIN users
  /\ row.classId \in classes
  /\ row.semesterId \in Semesters
  /\ EnrollmentRows(row.userId, row.classId, row.semesterId) = {}

\* admin/classes.ts 593-602: the request arrives and requireRole(["admin"]) runs.
enrollStudent_requireRole(p, in) ==
  /\ req[p].pc = "idle" /\ Admitted(p, in)
  /\ \E actor \in in.actors, classId \in in.classes, userId \in in.targets,
        semesterId \in in.semesterIds :
       LET r == [Idle EXCEPT !.op = "enrollStudent", !.actor = actor,
                             !.userId = userId, !.classId = classId,
                             !.semesterId = semesterId]
       IN req' = [req EXCEPT ![p] =
                    IF requireRole(actor, {"admin"}) # "ok"
                    THEN Finish(r, "Unauthorized")
                    ELSE [r EXCEPT !.session = getSession(actor), !.pc = "findFirst"]]
  /\ StoreUnchanged

\* 604-616: the check for an enrollment of the same user, class and semester.
enrollStudent_findFirst(p) ==
  /\ req[p].op = "enrollStudent" /\ req[p].pc = "findFirst"
  /\ req' = [req EXCEPT ![p] =
               IF EnrollmentRows(req[p].userId, req[p].classId, req[p].semesterId) # {}
               THEN Finish(req[p], "AlreadyEnrolled")
               ELSE [req[p] EXCEPT !.pc = "create"]]
  /\ StoreUnchanged

\* 618-632: create with status ACTIVE under a new id; a rejected insert is caught.
\* The step waits while the model has no id left to hand out.
enrollStudent_create(p) ==
  /\ req[p].op = "enrollStudent" /\ req[p].pc = "create"
  /\ \E id \in NewEnrollmentIds : \A e \in classEnrollments : e.id # id
  /\ LET id == CHOOSE i \in NewEnrollmentIds : \A e \in classEnrollments : e.id # i
         row == [id |-> id, userId |-> req[p].userId, classId |-> req[p].classId,
                 semesterId |-> req[p].semesterId, status |-> "ACTIVE"]
     IN \E storeOk \in BOOLEAN :
          IF storeOk /\ EnrollmentInsertAccepted(row)
          THEN /\ classEnrollments' = classEnrollments \cup {row}
               /\ req' = [req EXCEPT ![p] = Finish([req[p] EXCEPT !.mutated = TRUE], "success")]
          ELSE /\ classEnrollments' = classEnrollments
               /\ req' = [req EXCEPT ![p] = Finish(req[p], "Failed")]
  /\ UNCHANGED <<mahasiswaPrivileges, dosenPrivileges, hafalanRecords, lastCall, users, classes>>

\* admin/classes.ts 635-643: removeEnrollment arrives and requireRole runs.
removeEnrollment_requireRole(p, in) ==
  /\ req[p].pc = "idle" /\ Admitted(p, in)
  /\ \E actor \in in.actors, enrollmentId \in in.enrollmentIds :
       LET r == [Idle EXCEPT !.op = "removeEnrollment", !.actor = actor,
                             !.enrollmentId = enrollmentId]
       IN req' = [req EXCEPT ![p] =
                    IF requireRole(actor, {"admin"}) # "ok"
                    THEN Finish(r, "Unauthorized")
                    ELSE [r EXCEPT !.session = getSession(actor), !.pc = "delete"]]
  /\ StoreUnchanged

\* A mahasiswa_privileges table whose foreign keys do not cascade.
MahasiswaRowsKeptWithoutCascade(E, C) == mahasiswaPrivileges

\* mahasiswa_privileges.enrollmentId and .classId are onDelete: Cascade: the rows
\* the database keeps when the enrollments with ids E and the classes C are deleted.
MahasiswaRowsKept(E, C) ==
  {r \in mahasiswaPrivileges : r.enrollmentId \notin E /\ r.classId \notin C}

\* dosen_privileges.userId and .classId are onDelete: Cascade.
DosenRowsKept(U, C) ==
  {r \in dosenPrivileges : r.userId \notin U /\ r.classId \notin C}

\* hafalan_records.enrollmentId is onDelete: Cascade.
HafalanRowsKept(E) == {h \in hafalanRecords : h.enrollmentId \notin E}

\* 645-655: classEnrollment.delete({where: {id}}) throws when the row is
\* missing; the database deletes with the enrollment the privilege rows and the
\* hafalan records that reference it (onDelete: Cascade).
removeEnrollment_delete(p) ==
  /\ req[p].op = "removeEnrollment" /\ req[p].pc = "delete"
  /\ LET D == {e \in classEnrollments : e.id = req[p].enrollmentId}
     IN IF D = {}
        THEN /\ UNCHANGED <<classEnrollments, mahasiswaPrivileges, hafalanRecords>>
             /\ req' = [req EXCEPT ![p] = Finish(req[p], "Failed")]
        ELSE /\ classEnrollments' = classEnrollments \ D
             /\ mahasiswaPrivileges' = MahasiswaRowsKept({req[p].enrollmentId}, {})
             /\ hafalanRecords' = HafalanRowsKept({req[p].enrollmentId})
             /\ req' = [req EXCEPT ![p] =
                          Finish([req[p] EXCEPT !.mutated = TRUE], "success")]
  /\ UNCHANGED <<dosenPrivileges, lastCall, users, classes>>

\* --------------------------------------------------- deleteClass, deleteUser
\* admin/classes.ts 572-577: deleteClass arrives and requireRole runs.
deleteClass_requireRole(p, in) ==
  /\ req[p].pc = "idle" /\ Admitted(p, in)
  /\ \E actor \in in.actors, classId \in in.deletedClasses :
       LET r == [Idle EXCEPT !.op = "deleteClass", !.actor = actor, !.classId = classId]
       IN req' = [req EXCEPT ![p] =
                    IF requireRole(actor, {"admin"}) # "ok"
                    THEN Finish(r, "Unauthorized")
                    ELSE [r EXCEPT !.session = getSession(actor), !.pc = "delete"]]
  /\ StoreUnchanged

\* 579-589: class.delete({where: {id}}) throws when the row is missing; the
\* database deletes with the class its enrollments and privilege rows, and with
\* the enrollments what references them.
deleteClass_delete(p) ==
  /\ req[p].op = "deleteClass" /\ req[p].pc = "delete"
  /\ LET C == {req[p].classId}
         E == {e.id : e \in {e \in classEnrollments : e.classId \in C}}
     IN IF req[p].classId \notin classes
        THEN /\ UNCHANGED <<classes, classEnrollments, mahasiswaPrivileges,
                            dosenPrivileges, hafalanRecords>>
             /\ req' = [req EXCEPT ![p] = Finish(req[p], "Failed")]
        ELSE /\ classes' = classes \ C
             /\ classEnrollments' = {e \in classEnrollments : e.classId \notin C}
             /\ mahasiswaPrivileges' = MahasiswaRowsKept(E, C)
             /\ dosenPrivileges' = DosenRowsKept({}, C)
             /\ hafalanRecords' = HafalanRowsKept(E)
             /\ req' = [req EXCEPT ![p] =
                          Finish([req[p] EXCEPT !.mutated = TRUE], "success")]
  /\ UNCHANGED <<lastCall, users>>

\* admin/users.ts 201-206: deleteUser arrives and requireRole runs.
deleteUser_requireRole(p, in) ==
  /\ req[p].pc = "idle" /\ Admitted(p, in)
  /\ \E actor \in in.actors, userId \in in.deletedUsers :
       LET r == [Idle EXCEPT !.op = "deleteUser", !.actor = actor, !.userId = userId]
       IN req' = [req EXCEPT ![p] =
                    IF requireRole(actor, {"admin"}) # "ok"
                    THEN Finish(r, "Unauthorized")
                    ELSE [r EXCEPT !.session = getSession(actor), !.pc = "delete"]]
  /\ StoreUnchanged

\* assignedBy and evaluatedBy reference users without a cascade: the row stays,
\* the reference is set to null.
ClearReference(row, field, U) ==
  IF row[field] \in U THEN [row EXCEPT ![field] = NoId] ELSE row

\* 208-218: user.delete({where: {id}}) throws when the row is missing; the
\* database deletes with the user the enrollments and dosen-privilege rows, and
\* with the enrollments what references them. A row that names the user in
\* assignedBy or evaluatedBy either blocks the delete (the foreign key as the
\* drizzle schema declares it) or has the reference set to null (as the Prisma
\* schema declares it): setNull chooses.
deleteUser_delete(p) ==
  /\ req[p].op = "deleteUser" /\ req[p].pc = "delete"
  /\ LET U == {req[p].userId}
         E == {e.id : e \in {e \in classEnrollments : e.userId \in U}}
         referenced ==
           \/ \E r \in MahasiswaRowsKept(E, {}) \cup DosenRowsKept(U, {}) : r.assignedBy \in U
           \/ \E h \in HafalanRowsKept(E) : h.evaluatedBy \in U
     IN \E setNull \in BOOLEAN :
          IF req[p].userId \notin DOMAIN users \/ (referenced /\ ~setNull)
          THEN /\ UNCHANGED <<users, classEnrollments, mahasiswaPrivileges,
                              dosenPrivileges, hafalanRecords>>
               /\ req' = [req EXCEPT ![p] = Finish(req[p], "Failed")]
          ELSE /\ users' = [u \in DOMAIN users \ U |-> users[u]]
               /\ classEnrollments' = {e \in classEnrollments : e.userId \notin U}
               /\ mahasiswaPrivileges' =
                    {ClearReference(r, "assignedBy", U) : r \in MahasiswaRowsKept(E, {})}
               /\ dosenPrivileges' =
                    {ClearReference(r, "assignedBy", U) : r \in DosenRowsKept(U, {})}
               /\ hafalanRecords' =
                    {ClearReference(h, "evaluatedBy", U) : h \in HafalanRowsKept(E)}
               /\ req' = [req EXCEPT ![p] =
                            Finish([req[p] EXCEPT !.mutated = TRUE], "success")]
  /\ UNCHANGED <<lastCall, classes>>

\* ------------------------------------------------------------------- hafalan
\* hafalan.ts 12-14 on the statuses evaluateHafalanSchema admits.
toHafalanPrismaEnum(status) ==
  CASE status = "completed" -> "COMPLETED"
    [] status = "need_revision" -> "NEED_REVISION"
    [] OTHER -> status

\* hafalan.ts 44-47 as run by createHafalanRecord (154-162).  The store holds at
\* most MaxHafalan records.
createHafalanRecord_getSession(p, in) ==
  /\ req[p].pc = "idle" /\ Admitted(p, in)
  /\ Cardinality(hafalanRecords) < MaxHafalan
  /\ \E actor \in in.actors, classId \in in.classes, enrollmentId \in in.enrollmentIds :
       LET r == [Idle EXCEPT !.op = "createHafalanRecord", !.actor = actor,
                             !.classId = classId, !.enrollmentId = enrollmentId]
       IN req' = [req EXCEPT ![p] =
                    IF getSession(actor) = NoId
                    THEN Finish(r, "Unauthorized")
                    ELSE [r EXCEPT !.session = getSession(actor),
                                   !.pc = "hasDosenPrivilege"]]
  /\ StoreUnchanged

\* 44-47 as run by evaluateHafalan (190-199).
evaluateHafalan_getSession(p, in) ==
  /\ req[p].pc = "idle" /\ Admitted(p, in)
  /\ \E actor \in in.actors, classId \in in.classes, hafalanId \in 1..MaxHafalan,
        status \in in.statuses :
       LET r == [Idle EXCEPT !.op = "evaluateHafalan", !.actor = actor,
                             !.classId = classId, !.hafalanId = hafalanId,
                             !.status = status]
       IN req' = [req EXCEPT ![p] =
                    IF getSession(actor) = NoId
                    THEN Finish(r, "Unauthorized")
                    ELSE [r EXCEPT !.session = getSession(actor),
                                   !.pc = "hasDosenPrivilege"]]
  /\ StoreUnchanged

UsesVerifyHafalanPrivilege(r) == r.op \in {"createHafalanRecord", "evaluateHafalan"}

\* The test without the exemption of the admin role.
HafalanGuardWithoutAdmin(hasPrivilege, userType) == hasPrivilege

\* 55: the test that lets the request through (the negation of the throw's).
HafalanGuardAdmits(hasPrivilege, userType) == hasPrivilege \/ userType = "admin"

\* 49-59: the pengurus_hafalan lookup and the throw.
verifyHafalanPrivilege_hasDosenPrivilege(p) ==
  /\ UsesVerifyHafalanPrivilege(req[p]) /\ req[p].pc = "hasDosenPrivilege"
  /\ req' = [req EXCEPT ![p] =
               IF HafalanGuardAdmits(
                    hasDosenPrivilege(req[p].session, req[p].classId, "pengurus_hafalan"),
                    userTypeToString(StoredUserType(req[p].session)))
               THEN [req[p] EXCEPT !.pc = IF req[p].op = "createHafalanRecord"
                                          THEN "create" ELSE "update"]
               ELSE Finish(req[p], "Forbidden")]
  /\ StoreUnchanged

\* 170-179: the record the request inserts; its id is fresh.
HafalanRecord(r) ==
  [ id |-> Cardinality(hafalanRecords) + 1, enrollmentId |-> r.enrollmentId,
    status |-> "PENDING", evaluatedBy |-> NoId ]

\* 169-186: create; the enrollment must exist (storeOk = FALSE is a storage failure).
createHafalanRecord_create(p) ==
  /\ req[p].op = "createHafalanRecord" /\ req[p].pc = "create"
  /\ \E storeOk \in BOOLEAN :
       IF /\ storeOk /\ Cardinality(hafalanRecords) < MaxHafalan
          /\ \E e \in classEnrollments : e.id = req[p].enrollmentId
       THEN /\ hafalanRecords' = hafalanRecords \cup {HafalanRecord(req[p])}
            /\ req' = [req EXCEPT ![p] = Finish([req[p] EXCEPT !.mutated = TRUE], "success")]
       ELSE /\ hafalanRecords' = hafalanRecords
            /\ req' = [req EXCEPT ![p] = Finish(req[p], "Failed")]
  /\ UNCHANGED <<classEnrollments, mahasiswaPrivileges, dosenPrivileges, lastCall, users, classes>>

\* 206-223: update({where: {id}}); Prisma throws when no record has that id.
evaluateHafalan_update(p) ==
  /\ req[p].op = "evaluateHafalan" /\ req[p].pc = "update"
  /\ LET hit == {h \in hafalanRecords : h.id = req[p].hafalanId}
         new == {[h EXCEPT !.status = toHafalanPrismaEnum(req[p].status),
                           !.evaluatedBy = req[p].session] : h \in hit}
     IN \E storeOk \in BOOLEAN :
          IF storeOk /\ hit # {}
          THEN /\ hafalanRecords' = (hafalanRecords \ hit) \cup new
               /\ req' = [req EXCEPT ![p] =
                            Finish([req[p] EXCEPT !.mutated = TRUE], "success")]
          ELSE /\ hafalanRecords' = hafalanRecords
               /\ req' = [req EXCEPT ![p] = Finish(req[p], "Failed")]
  /\ UNCHANGED <<classEnrollments, mahasiswaPrivileges, dosenPrivileges, lastCall, users, classes>>

\* ------------------------------------------------- student-privilege queries
\* String.prototype.toLowerCase on the stored kinds (fromMahasiswaPrismaEnum).
fromMahasiswaPrismaEnum(type) ==
  CASE type = "KETUA_UMUM" -> "ketua_umum"
    [] type = "KETUA_KELOMPOK" -> "ketua_kelompok"
    [] type = "KAMTIB" -> "kamtib"
    [] type = "KETUA_FAN_ILMU" -> "ketua_fan_ilmu"
    [] type = "SEKRETARIS" -> "sekretaris"
    [] type = "BENDAHARA" -> "bendahara"
    [] OTHER -> type

\* hasMahasiswaPrivilege, first query: the user's active enrollment in the class
\* (isKetuaUmum is this call with "ketua_umum").
hasMahasiswaPrivilege_enrollment(p, in) ==
  /\ req[p].pc = "idle" /\ Admitted(p, in)
  /\ \E userId \in in.targets, classId \in in.classes, type \in in.types :
       LET r == [Idle EXCEPT !.op = "hasMahasiswaPrivilege", !.userId = userId,
                             !.classId = classId, !.privilegeType = type]
       IN IF ActiveEnrollments(userId, classId) = {}
          THEN req' = [req EXCEPT ![p] = Finish(r, "false")]
          ELSE \E e \in ActiveEnrollments(userId, classId) :
                 req' = [req EXCEPT ![p] = [r EXCEPT !.enrollmentId = e.id,
                                                     !.pc = "findPrivilege"]]
  /\ StoreUnchanged

\* hasMahasiswaPrivilege, second query: the privilege row of that enrollment.
hasMahasiswaPrivilege_privilege(p) ==
  /\ req[p].op = "hasMahasiswaPrivilege" /\ req[p].pc = "findPrivilege"
  /\ req' = [req EXCEPT ![p] =
               Finish(req[p],
                      IF PrivilegeRows(req[p].enrollmentId, req[p].classId,
                                       toMahasiswaPrismaEnum(req[p].privilegeType)) # {}
                      THEN "true" ELSE "false")]
  /\ StoreUnchanged

\* getMahasiswaPrivilegesForClass, first query.
getMahasiswaPrivilegesForClass_enrollment(p, in) ==
  /\ req[p].pc = "idle" /\ Admitted(p, in)
  /\ \E userId \in in.targets, classId \in in.classes :
       LET r == [Idle EXCEPT !.op = "getMahasiswaPrivilegesForClass",
                             !.userId = userId, !.classId = classId]
       IN IF ActiveEnrollments(userId, classId) = {}
          THEN req' = [req EXCEPT ![p] = Finish(r, "list")]
          ELSE \E e \in ActiveEnrollments(userId, classId) :
                 req' = [req EXCEPT ![p] = [r EXCEPT !.enrollmentId = e.id,
                                                     !.pc = "findMany"]]
  /\ StoreUnchanged

\* getMahasiswaPrivilegesForClass, second query: the kinds of the enrollment's rows.
getMahasiswaPrivilegesForClass_findMany(p) ==
  /\ req[p].op = "getMahasiswaPrivilegesForClass" /\ req[p].pc = "findMany"
  /\ req' = [req EXCEPT ![p] =
               Finish([req[p] EXCEPT !.privileges =
                         {fromMahasiswaPrismaEnum(x.privilegeType) :
                            x \in {y \in mahasiswaPrivileges :
                                     /\ y.enrollmentId = req[p].enrollmentId
                                     /\ y.classId = req[p].classId}}],
                      "list")]
  /\ StoreUnchanged

\* The stores the queries are asked about: the enrollments of S1, S2 and S3 in C1
\* with the statuses the schema admits, and any rows of two kinds for them.
QueryEnrollmentTables ==
  { { [id |-> "E1", userId |-> "S1", classId |-> "C1", semesterId |-> "T1",
        status |-> s1],
      [id |-> "E2", userId |-> "S2", classId |-> "C1", semesterId |-> "T1",
        status |-> s2],
      [id |-> "E3", userId |-> "S3", classId |-> "C1", semesterId |-> "T1",
        status |-> "INACTIVE"] } :
    s1 \in {"ACTIVE", "DROPPED"}, s2 \in {"ACTIVE", "INACTIVE", "GRADUATED"} }

QueryPrivilegeRows ==
  { [ enrollmentId |-> e, classId |-> "C1", privilegeType |-> k, groupId |-> NoId,
      fanIlmuId |-> NoId, assignedBy |-> "A1" ] :
    e \in {"E1", "E2", "E3"}, k \in {"KETUA_UMUM", "SEKRETARIS"} }

QueryInit ==
  /\ classEnrollments \in QueryEnrollmentTables
  /\ mahasiswaPrivileges \in SUBSET QueryPrivilegeRows
  /\ dosenPrivileges = {}
  /\ hafalanRecords = {}
  /\ req = [p \in Procs |-> Idle]
  /\ lastCall = NoCall
  /\ users = SeedUsers
  /\ classes = Classes

QueryInputs ==
  [ oneAtATime |-> TRUE, targets |-> {"S1", "S2", "S3"}, classes |-> {"C1", "C2"},
    types |-> {"ketua_umum", "sekretaris"} ]

\* ------------------------------------------------ guards and storage failures
\* getSession with its try/catch (session.ts 78-100): when the user lookup
\* throws (dbUp = FALSE) the catch returns null, as for a missing cookie.
getSessionCatching(cookie, dbUp) == IF dbUp THEN getSession(cookie) ELSE NoId

\* The roles requireAuth and requireRole are called with.
AllRoles == {"admin", "dosen", "mahasiswa"}

\* requireAuth (108-114) and requireRole (116-124) called on their own: the
\* answer is "ok" or the message of the error thrown.  storageFailed records
\* that the user lookup of getSession failed.
requireRole_getSession(p, in) ==
  /\ req[p].pc = "idle" /\ Admitted(p, in)
  /\ \E actor \in in.actors, fn \in {"requireAuth", "requireRole"}, dbUp \in BOOLEAN :
       LET allowedRoles == IF fn = "requireAuth" THEN AllRoles ELSE {"admin"}
           session == getSessionCatching(actor, dbUp)
           r == [Idle EXCEPT !.op = fn, !.actor = actor, !.session = session,
                             !.storageFailed = ~dbUp]
       IN req' = [req EXCEPT ![p] =
                    IF session = NoId THEN Finish(r, "Unauthorized")
                    ELSE IF userTypeToString(StoredUserType(session)) \notin allowedRoles
                         THEN Finish(r, "Forbidden")
                         ELSE Finish(r, "ok")]
  /\ StoreUnchanged

\* hasDosenPrivilege (part_005 53-67) called on its own; a failing findFirst
\* throws to the caller.
hasDosenPrivilege_findFirst(p, in) ==
  /\ req[p].pc = "idle" /\ Admitted(p, in)
  /\ \E userId \in in.dosenTargets, classId \in in.classes, type \in in.dosenTypes,
        dbUp \in BOOLEAN :
       LET r == [Idle EXCEPT !.op = "hasDosenPrivilege", !.userId = userId,
                             !.classId = classId, !.privilegeType = type,
                             !.storageFailed = ~dbUp]
       IN req' = [req EXCEPT ![p] =
                    IF ~dbUp THEN Finish(r, "throws")
                    ELSE IF hasDosenPrivilege(userId, classId, type)
                         THEN Finish(r, "true") ELSE Finish(r, "false")]
  /\ StoreUnchanged

\* The stores the guards and queries run against.
FailureInit ==
  /\ classEnrollments = InitEnrollments
  /\ mahasiswaPrivileges \in SUBSET
       { [ enrollmentId |-> "E1", classId |-> "C1", privilegeType |-> k,
           groupId |-> NoId, fanIlmuId |-> NoId, assignedBy |-> "A1" ] :
         k \in {"KETUA_UMUM", "SEKRETARIS"} }
  /\ dosenPrivileges \in SUBSET
       { [ userId |-> "D1", classId |-> "C1", privilegeType |-> k, assignedBy |-> "A1" ] :
         k \in {"PENGURUS_HAFALAN", "WALI_KELAS"} }
  /\ hafalanRecords = {}
  /\ req = [p \in Procs |-> Idle]
  /\ lastCall = NoCall
  /\ users = SeedUsers
  /\ classes = Classes

\* Callers with and without a session, and identifiers of users and classes
\* that do not exist (U9, C9).
FailureInputs ==
  [ oneAtATime |-> TRUE, actors |-> {"A1", "D1", "S1", NoId},
    targets |-> {"S1", "U9"}, classes |-> {"C1", "C9"},
    types |-> {"ketua_umum", "sekretaris"},
    dosenTargets |-> {"D1", "U9"}, dosenTypes |-> {"pengurus_hafalan"} ]

FailureNext ==
  \E p \in Procs :
    \/ requireRole_getSession(p, FailureInputs)
    \/ hasDosenPrivilege_findFirst(p, FailureInputs)
    \/ hasMahasiswaPrivilege_enrollment(p, FailureInputs)
    \/ hasMahasiswaPrivilege_privilege(p)
    \/ getMahasiswaPrivilegesForClass_enrollment(p, FailureInputs)
    \/ getMahasiswaPrivilegesForClass_findMany(p)
    \/ Return(p)

SpecFailure == FailureInit /\ [][FailureNext]_vars

\* The steps of a call to the helper.
\* The request after one of its reads answered: the answer is or-ed in, and
\* after the last read the predicate returns.
PermissionAdvance(r, answer) ==
  LET r2 == [r EXCEPT !.granted = @ \/ answer, !.reads = Tail(@)]
  IN IF r2.reads = <<>>
     THEN Finish(r2, IF r2.granted THEN "true" ELSE "false")
     ELSE [r2 EXCEPT !.pc = "read"]

\* What holds of the store the caller would be granted by, for the predicate the
\* request evaluates: a stored row of one of the dosen kinds it reads, or the
\* Ketua Umum row on an active enrollment when it asks isKetuaUmum.
PermissionHolds(r) ==
  \E i \in 1..Len(PermissionReads(r.op)) :
    LET kind == PermissionReads(r.op)[i]
    IN IF kind = "ketua_umum" THEN isKetuaUmum(r.userId, r.classId)
       ELSE hasDosenPrivilege(r.userId, r.classId, kind)

\* A predicate of the helper is called.
permissions_call(p, in) ==
  /\ req[p].pc = "idle" /\ Admitted(p, in)
  /\ \E fn \in in.permissionFns, userId \in in.subjects, classId \in in.classes :
       LET r == [Idle EXCEPT !.op = fn, !.userId = userId, !.classId = classId,
                             !.reads = PermissionReads(fn), !.pc = "read"]
       IN req' = [req EXCEPT ![p] = [r EXCEPT !.lapsed = ~PermissionHolds(r)]]
  /\ StoreUnchanged

\* hasDosenPrivilege (part_005 53-67) for the next kind of the predicate.
permissions_hasDosenPrivilege(p) ==
  /\ req[p].op \in PermissionFns /\ req[p].pc = "read"
  /\ Head(req[p].reads) # "ketua_umum"
  /\ req' = [req EXCEPT ![p] =
               PermissionAdvance(req[p],
                 hasDosenPrivilege(req[p].userId, req[p].classId, Head(req[p].reads)))]
  /\ StoreUnchanged

\* isKetuaUmum, first query (part_005 108-119): the user's active enrollment.
permissions_isKetuaUmum_enrollment(p) ==
  /\ req[p].op \in PermissionFns /\ req[p].pc = "read"
  /\ Head(req[p].reads) = "ketua_umum"
  /\ IF ActiveEnrollments(req[p].userId, req[p].classId) = {}
     THEN req' = [req EXCEPT ![p] = PermissionAdvance(req[p], FALSE)]
     ELSE \E e \in ActiveEnrollments(req[p].userId, req[p].classId) :
            req' = [req EXCEPT ![p] = [req[p] EXCEPT !.enrollmentId = e.id,
                                                     !.pc = "readPrivilege"]]
  /\ StoreUnchanged

\* isKetuaUmum, second query (part_005 121-129): the row of that enrollment.
permissions_isKetuaUmum_privilege(p) ==
  /\ req[p].op \in PermissionFns /\ req[p].pc = "readPrivilege"
  /\ req' = [req EXCEPT ![p] =
               PermissionAdvance(req[p],
                 HoldsKetuaUmumRow(req[p].enrollmentId, req[p].classId))]
  /\ StoreUnchanged

PermissionStep(p, in) ==
  \/ permissions_call(p, in)
  \/ permissions_hasDosenPrivilege(p)
  \/ permissions_isKetuaUmum_enrollment(p)
  \/ permissions_isKetuaUmum_privilege(p)

\* The stores the predicates are asked about: up to two dosen rows of D1 over
\* both classes and all kinds, S1 enrolled once, twice or no longer in C1, and
\* any of three student rows.
PermissionDosenRows ==
  { [ userId |-> "D1", classId |-> c, privilegeType |-> k, assignedBy |-> "A1" ] :
    c \in Classes, k \in PrismaDosenPrivilegeType }

PermissionEnrollmentTables ==
  { InitEnrollments,
    InitEnrollments \cup
      { [id |-> "E4", userId |-> "S1", classId |-> "C1", semesterId |-> "T2",
         status |-> "ACTIVE"] },
    { IF e.id = "E1" THEN [e EXCEPT !.status = "DROPPED"] ELSE e :
        e \in InitEnrollments } }

PermissionStudentRows ==
  { [ enrollmentId |-> "E1", classId |-> "C1", privilegeType |-> "KETUA_UMUM",
      groupId |-> NoId, fanIlmuId |-> NoId, assignedBy |-> "A1" ],
    [ enrollmentId |-> "E4", classId |-> "C1", privilegeType |-> "KETUA_UMUM",
      groupId |-> NoId, fanIlmuId |-> NoId, assignedBy |-> "A1" ],
    [ enrollmentId |-> "E1", classId |-> "C1", privilegeType |-> "SEKRETARIS",
      groupId |-> NoId, fanIlmuId |-> NoId, assignedBy |-> "S1" ] }

PermissionInit ==
  /\ classEnrollments \in PermissionEnrollmentTables
  /\ mahasiswaPrivileges \in
       {M \in SUBSET PermissionStudentRows :
          \A r \in M : \E e \in classEnrollments : e.id = r.enrollmentId}
  /\ dosenPrivileges \in
       {{}} \cup {{a, b} : a \in PermissionDosenRows, b \in PermissionDosenRows}
  /\ hafalanRecords = {}
  /\ req = [p \in Procs |-> Idle]
  /\ lastCall = NoCall
  /\ users = SeedUsers
  /\ classes = Classes

PermissionInputs ==
  [ oneAtATime |-> TRUE, permissionFns |-> PermissionFns,
    subjects |-> {"D1", "S1"}, classes |-> {"C1", "C2"} ]

PermissionNext == \E p \in Procs : PermissionStep(p, PermissionInputs) \/ Return(p)

SpecPermissions == PermissionInit /\ [][PermissionNext]_vars

\* ------------------------------------------------------------ the requests
\* The arguments the modelled requests carry.  A privilegeType is whatever string
\* the caller sends: the declared TypeScript union is not checked at run time.
\* Interleaved requests: the admin and the student S1, well-typed arguments.
ConcurrentInputs ==
  [ oneAtATime |-> FALSE, actors |-> {"A1", "S1"}, targets |-> {"S1", "S2"},
    classes |-> {"C1"},
    enrollmentIds |-> {"E1", "E2"}, types |-> {"sekretaris", "ketua_kelompok"},
    groupIds |-> {"G1"}, fanIlmuIds |-> {} ]

\* One request at a time: also anonymous callers, a second class, the study-area
\* kind, and privilegeType strings outside the declared union.
SequentialInputs ==
  [ oneAtATime |-> TRUE, actors |-> {"A1", "S1", NoId},
    targets |-> {"S1", "S2", "S3"}, classes |-> {"C1", "C2"},
    enrollmentIds |-> {"E1", "E2"},
    types |-> {"sekretaris", "ketua_kelompok", "ketua_fan_ilmu", "ketua_umum",
               "KETUA_UMUM", "SEKRETARIS", "wakil"},
    groupIds |-> {"G1", "G3"}, fanIlmuIds |-> {"F1"} ]

\* One request at a time, by the admin, the dosen D1 and the student S1: the
\* privilege guards of the student-privilege and the hafalan actions.
GuardInputs ==
  [ oneAtATime |-> TRUE, actors |-> {"A1", "D1", "S1"}, targets |-> {"S1", "S2"},
    classes |-> {"C1", "C2"}, enrollmentIds |-> {"E1"}, types |-> {"sekretaris"},
    groupIds |-> {}, fanIlmuIds |-> {},
    dosenTargets |-> {"D1"}, dosenTypes |-> {"pengurus_hafalan"},
    statuses |-> {"completed"} ]

\* One request at a time, by every kind of caller: the admin, the dosen, the Ketua
\* Umum S1, no cookie, the deactivated admin, the demoted admin, and the token Z9
\* of a user that has been deleted.
PrivInputs ==
  [ oneAtATime |-> TRUE, actors |-> {"A1", "D1", "S1", NoId, "X1", "X2", "Z9"},
    targets |-> {"S1", "S2", "S3"}, classes |-> {"C1", "C2"},
    enrollmentIds |-> {"E1", "E2"}, types |-> {"sekretaris"},
    groupIds |-> {}, fanIlmuIds |-> {},
    dosenTargets |-> {"D1"}, dosenTypes |-> {"pengurus_hafalan", "wali_kelas"} ]

\* The admin granting and removing two kinds for two dosen in two classes, next
\* to the student-privilege calls of the admin and the Ketua Umum for S1.
FrameInputs ==
  [ oneAtATime |-> TRUE, actors |-> {"A1", "S1"},
    targets |-> {"S1"}, classes |-> {"C1", "C2"},
    enrollmentIds |-> {"E1"}, types |-> {"sekretaris"},
    groupIds |-> {}, fanIlmuIds |-> {},
    dosenTargets |-> {"D1", "X2"}, dosenTypes |-> {"pengurus_hafalan", "wali_kelas"} ]

Step(p, in) ==
  \/ assignKetuaUmum_requireRole(p, in)
  \/ assignKetuaUmum_findEnrollment(p)
  \/ assignKetuaUmum_findExisting(p)
  \/ assignKetuaUmum_delete(p)
  \/ assignKetuaUmum_create(p)
  \/ getKetuaUmum_requireRole(p, in)
  \/ getKetuaUmum_findFirst(p)
  \/ assignMahasiswaPrivilege_getSession(p, in)
  \/ removeMahasiswaPrivilege_getSession(p, in)
  \/ verifyKetuaUmum_enrollment(p)
  \/ verifyKetuaUmum_privilege(p)
  \/ assignMahasiswaPrivilege_getEnrollmentId(p)
  \/ assignMahasiswaPrivilege_deleteMany(p)
  \/ assignMahasiswaPrivilege_create(p)
  \/ removeMahasiswaPrivilege_deleteMany(p)
  \/ Return(p)

\* Requests interleave at every awaited store operation.
Next == \E p \in Procs : Step(p, ConcurrentInputs)

Spec == Init /\ [][Next]_vars

\* The dosen-privilege actions.
DosenStep(p, in) ==
  \/ assignDosenPrivilege_requireRole(p, in)
  \/ assignDosenPrivilege_findFirst(p)
  \/ assignDosenPrivilege_create(p)
  \/ removeDosenPrivilege_requireRole(p, in)
  \/ removeDosenPrivilege_deleteMany(p)

\* The dosen-privilege and hafalan actions.
StaffStep(p, in) ==
  \/ DosenStep(p, in)
  \/ createHafalanRecord_getSession(p, in)
  \/ evaluateHafalan_getSession(p, in)
  \/ verifyHafalanPrivilege_hasDosenPrivilege(p)
  \/ createHafalanRecord_create(p)
  \/ evaluateHafalan_update(p)

\* Calls executed one at a time: a request starts only when no other is in flight.
SeqNext == \E p \in Procs : Step(p, SequentialInputs)

SpecSeq == Init /\ [][SeqNext]_vars

\* The student-privilege, dosen-privilege and hafalan actions, one at a time.
GuardNext == \E p \in Procs : Step(p, GuardInputs) \/ StaffStep(p, GuardInputs)

SpecGuards == Init /\ [][GuardNext]_vars

\* The student-privilege and dosen-privilege actions, one at a time.
PrivNext == \E p \in Procs : Step(p, PrivInputs) \/ DosenStep(p, PrivInputs)

SpecPriv == Init /\ [][PrivNext]_vars

\* The student-privilege and dosen-privilege actions on FrameInputs, one at a time.
FrameNext == \E p \in Procs : Step(p, FrameInputs) \/ DosenStep(p, FrameInputs)

SpecFrame == Init /\ [][FrameNext]_vars

\* The admin enrolling S1, and the grants and removals for S1 and D1 in class C1.
RoundInputs ==
  [ oneAtATime |-> TRUE, actors |-> {"A1", "S1"},
    targets |-> {"S1"}, classes |-> {"C1"}, semesterIds |-> {"T1", "T2"},
    enrollmentIds |-> {"E1", "E4"}, types |-> {"sekretaris"},
    groupIds |-> {}, fanIlmuIds |-> {},
    dosenTargets |-> {"D1"}, dosenTypes |-> {"pengurus_hafalan"} ]

EnrollStep(p, in) ==
  \/ enrollStudent_requireRole(p, in)
  \/ enrollStudent_findFirst(p)
  \/ enrollStudent_create(p)

RoundNext ==
  \E p \in Procs :
    Step(p, RoundInputs) \/ DosenStep(p, RoundInputs) \/ EnrollStep(p, RoundInputs)

SpecRound == Init /\ [][RoundNext]_vars

\* Two admins enrolling S1 in C1 for either semester and removing enrollments,
\* concurrently.
EnrollInputs ==
  [ oneAtATime |-> FALSE, actors |-> {"A1", "A2"},
    targets |-> {"S1"}, classes |-> {"C1"}, semesterIds |-> {"T1", "T2"},
    enrollmentIds |-> {"E1", "E4"} ]

EnrollNext ==
  \E p \in Procs :
    \/ EnrollStep(p, EnrollInputs)
    \/ removeEnrollment_requireRole(p, EnrollInputs)
    \/ removeEnrollment_delete(p)
    \/ Return(p)

SpecEnroll == Init /\ [][EnrollNext]_vars

\* The store after the admin made S1 the Ketua Umum of C1.
KetuaUmumRowOfS1 ==
  [ enrollmentId |-> "E1", classId |-> "C1", privilegeType |-> "KETUA_UMUM",
    groupId |-> NoId, fanIlmuId |-> NoId, assignedBy |-> "A1" ]

LeaderInit ==
  /\ classEnrollments = InitEnrollments
  /\ mahasiswaPrivileges = {KetuaUmumRowOfS1}
  /\ dosenPrivileges = {}
  /\ hafalanRecords = {}
  /\ req = [p \in Procs |-> Idle]
  /\ lastCall = NoCall
  /\ users = SeedUsers
  /\ classes = Classes

\* The Ketua Umum S1 making S2 the leader of groups and study areas, in
\* concurrent requests.
ScopedInputs ==
  [ oneAtATime |-> FALSE, actors |-> {"S1"}, targets |-> {"S2"}, classes |-> {"C1"},
    types |-> {"ketua_kelompok", "ketua_fan_ilmu"},
    groupIds |-> {"G1", "G2"}, fanIlmuIds |-> {"F1", "F2"} ]

ScopedNext ==
  \E p \in Procs :
    \/ assignMahasiswaPrivilege_getSession(p, ScopedInputs)
    \/ verifyKetuaUmum_enrollment(p)
    \/ verifyKetuaUmum_privilege(p)
    \/ assignMahasiswaPrivilege_getEnrollmentId(p)
    \/ assignMahasiswaPrivilege_deleteMany(p)
    \/ assignMahasiswaPrivilege_create(p)
    \/ Return(p)

SpecScoped == LeaderInit /\ [][ScopedNext]_vars

\* Two admins calling the dosen-privilege actions concurrently for one dosen
\* and one class.
DosenInputs ==
  [ oneAtATime |-> FALSE, actors |-> {"A1", "A2"},
    targets |-> {}, classes |-> {"C1"}, enrollmentIds |-> {}, types |-> {},
    groupIds |-> {}, fanIlmuIds |-> {},
    dosenTargets |-> {"D1"}, dosenTypes |-> {"pengurus_hafalan", "wali_kelas"} ]

DosenNext == \E p \in Procs : DosenStep(p, DosenInputs) \/ Return(p)

SpecDosen == Init /\ [][DosenNext]_vars

\* The student-privilege queries, asked of every store of QueryInit.
QueryNext ==
  \E p \in Procs :
    \/ hasMahasiswaPrivilege_enrollment(p, QueryInputs)
    \/ hasMahasiswaPrivilege_privilege(p)
    \/ getMahasiswaPrivilegesForClass_enrollment(p, QueryInputs)
    \/ getMahasiswaPrivilegesForClass_findMany(p)
    \/ Return(p)

SpecQuery == QueryInit /\ [][QueryNext]_vars

\* ---------------------------------------------------------------- properties
SingularKinds == {"KETUA_UMUM", "SEKRETARIS", "BENDAHARA", "KAMTIB"}

AtMostOneHolder ==
  \A c \in Classes, k \in SingularKinds : Cardinality(ClassRows(c, k)) <= 1

NoRequestInFlight == \A p \in Procs : req[p].pc \in {"idle", "done"}

Returned(p, op) == req[p].op = op /\ req[p].pc = "done"

\* C1: under every interleaving of the store steps of concurrent assignment
\* requests for the same singular kind in one class, no store state holds two
\* rows of that kind for the class (a property of Spec, whose requests are
\* well typed, so that only the interleaving can produce a second row).
C1_SingularUnderInterleaving == AtMostOneHolder

\* C2: with the calls executed one at a time, after every completed call each
\* class has at most one row of each of ketua_umum, sekretaris, bendahara, kamtib
\* (a property of SpecSeq).
C2_SingularAfterEveryCall == NoRequestInFlight => AtMostOneHolder

\* C3: in every reachable state there is at most one ketua_kelompok row per
\* (class, group) and at most one ketua_fan_ilmu row per (class, study area).
C3_OneLeaderPerScope ==
  /\ \A c \in Classes, g \in Groups :
       Cardinality({r \in ClassRows(c, "KETUA_KELOMPOK") : r.groupId = g}) <= 1
  /\ \A c \in Classes, f \in FanIlmus :
       Cardinality({r \in ClassRows(c, "KETUA_FAN_ILMU") : r.fanIlmuId = f}) <= 1

\* C4: while assignKetuaUmum replaces an existing Ketua Umum, no concurrent
\* getKetuaUmum reads the class as having no ketua_umum row.
C4_NoTornRead == \A p \in Procs : ~req[p].torn

\* C5: a call of assignKetuaUmum or assignMahasiswaPrivilege that returns an
\* error has not changed the mahasiswa-privilege rows.
C5_ErrorLeavesRowsIntact ==
  \A p \in Procs :
    (/\ req[p].op \in {"assignKetuaUmum", "assignMahasiswaPrivilege"}
     /\ req[p].pc = "done" /\ req[p].result # "success")
    => ~req[p].mutated

\* C6: when a successful assignKetuaUmum(S2, C) directly follows a successful
\* assignKetuaUmum(S1, C), S1 is no longer Ketua Umum of C, S2 is, and C has
\* exactly one ketua_umum row, assigned by the acting admin.
C6_ReassignKetuaUmum ==
  \A p \in Procs :
    (/\ Returned(p, "assignKetuaUmum") /\ req[p].result = "success"
     /\ lastCall.classId = req[p].classId /\ lastCall.userId # req[p].userId)
    => /\ ~isKetuaUmum(lastCall.userId, req[p].classId)
       /\ isKetuaUmum(req[p].userId, req[p].classId)
       /\ Cardinality(ClassRows(req[p].classId, "KETUA_UMUM")) = 1
       /\ \A r \in ClassRows(req[p].classId, "KETUA_UMUM") : r.assignedBy = req[p].session

\* verifyKetuaUmum has run to its end for the request.
Verified(r) ==
  /\ UsesVerifyKetuaUmum(r) /\ r.session # NoId
  /\ r.pc \notin {"verifyEnrollment", "verifyPrivilege"}

\* C7: a call of assignMahasiswaPrivilege or removeMahasiswaPrivilege whose
\* acting user is not the class's Ketua Umum returns Forbidden and neither
\* creates nor deletes a row.
C7_NonKetuaUmumForbidden ==
  \A p \in Procs :
    (Verified(req[p]) /\ ~req[p].wasKU)
    => (req[p].pc = "done" /\ req[p].result = "Forbidden" /\ ~req[p].mutated)

\* C7 witness: S1 is refused while S2 is the Ketua Umum of the class.
C7_Witness ==
  \E p \in Procs :
    /\ Returned(p, "assignMahasiswaPrivilege") /\ req[p].session = "S1"
    /\ req[p].result = "Forbidden" /\ isKetuaUmum("S2", req[p].classId)

\* C8: assignMahasiswaPrivilege given the Ketua Umum kind is refused with an
\* error and changes no row.
C8_KetuaUmumNotGrantedHere ==
  \A p \in Procs :
    (/\ Returned(p, "assignMahasiswaPrivilege")
     /\ toMahasiswaPrismaEnum(req[p].privilegeType) = "KETUA_UMUM")
    => (req[p].result # "success" /\ ~req[p].mutated)

\* C9: removeMahasiswaPrivilege given any privilegeType that maps to the stored
\* KETUA_UMUM kind is rejected and deletes no row.
C9_KetuaUmumNotRemovedHere ==
  \A p \in Procs :
    (/\ Returned(p, "removeMahasiswaPrivilege")
     /\ toMahasiswaPrismaEnum(req[p].privilegeType) = "KETUA_UMUM")
    => (req[p].result # "success" /\ ~req[p].mutated)

SessionRole(r) == userTypeToString(StoredUserType(r.session))

HoldsNoRowIn(userId, classId) ==
  /\ \A r \in dosenPrivileges : ~(r.userId = userId /\ r.classId = classId)
  /\ \A e \in classEnrollments : e.userId = userId =>
        \A r \in mahasiswaPrivileges : ~(r.enrollmentId = e.id /\ r.classId = classId)

\* The request is past verifyHafalanPrivilege.
HafalanVerified(r) ==
  /\ UsesVerifyHafalanPrivilege(r) /\ r.session # NoId /\ r.pc # "hasDosenPrivilege"

IsStoredAdmin(cookie) ==
  cookie \in DOMAIN users /\ IsActive(cookie) /\ StoredUserType(cookie) = "ADMIN"

AdminOnlyOps == {"assignDosenPrivilege", "removeDosenPrivilege", "assignKetuaUmum"}

\* C11: assignDosenPrivilege, removeDosenPrivilege and assignKetuaUmum called by
\* anyone whose session does not resolve to an existing, active user stored as
\* admin return an error and change no row.
C11_AdminOnlyMutations ==
  \A p \in Procs :
    (req[p].op \in AdminOnlyOps /\ ~IsStoredAdmin(req[p].actor))
    => (req[p].pc = "done" /\ req[p].result = "Unauthorized" /\ ~req[p].mutated)

\* C11 witness: X2, whose token still says admin, is refused while S1 is the
\* Ketua Umum of C1.
C11_Witness ==
  \E p \in Procs :
    /\ Returned(p, "assignDosenPrivilege") /\ req[p].actor = "X2"
    /\ req[p].result = "Unauthorized" /\ isKetuaUmum("S1", "C1")

NoActiveEnrollment(userId, classId) ==
  \A e \in classEnrollments :
    (e.userId = userId /\ e.classId = classId) => e.status # "ACTIVE"

\* C12: for a user with no enrollment of status active in a class,
\* hasMahasiswaPrivilege and isKetuaUmum answer false and
\* getMahasiswaPrivilegesForClass answers the empty list, whatever rows exist for
\* the user's other enrollments.
C12_NoStandingWithoutActiveEnrollment ==
  /\ \A p \in Procs :
       (req[p].pc = "done" /\ NoActiveEnrollment(req[p].userId, req[p].classId))
       => /\ req[p].op = "hasMahasiswaPrivilege" => req[p].result = "false"
          /\ req[p].op = "getMahasiswaPrivilegesForClass" => req[p].privileges = {}
  /\ \A u \in {"S1", "S2", "S3"}, c \in Classes :
       NoActiveEnrollment(u, c) =>
         /\ ~isKetuaUmum(u, c)
         /\ \A k \in {"ketua_umum", "sekretaris"} : ~hasMahasiswaPrivilege(u, c, k)

\* C12 witness: the query about S3, whose only enrollment in C1 is inactive and
\* holds a KETUA_UMUM row, has answered false.
C12_Witness ==
  \E p \in Procs :
    /\ Returned(p, "hasMahasiswaPrivilege") /\ req[p].userId = "S3"
    /\ req[p].classId = "C1" /\ req[p].privilegeType = "ketua_umum"
    /\ PrivilegeRows("E3", "C1", "KETUA_UMUM") # {}
    /\ req[p].result = "false"

\* The caller has passed the guard of the assignment it called.
PassedAssignGuard(r) ==
  \/ r.op = "assignKetuaUmum" /\ IsStoredAdmin(r.actor)
  \/ r.op = "assignMahasiswaPrivilege" /\ r.wasKU

\* The row a successful assignment has inserted.
InsertedRow(r) == IF r.op = "assignKetuaUmum" THEN KetuaUmumRow(r) ELSE PrivilegeRow(r)

\* C13: assignKetuaUmum and assignMahasiswaPrivilege for a target without an active
\* enrollment in the class never write and never succeed, and answer NotEnrolled
\* to a caller that passed the guard; the row a successful call has inserted
\* references an enrollment of the target in that class.
C13_NotEnrolledTarget ==
  \A p \in Procs :
    req[p].op \in {"assignKetuaUmum", "assignMahasiswaPrivilege"} =>
      /\ NoActiveEnrollment(req[p].userId, req[p].classId) =>
           /\ ~req[p].mutated
           /\ req[p].result # "success"
           /\ (req[p].pc = "done" /\ PassedAssignGuard(req[p]))
                => req[p].result = "NotEnrolled"
      /\ (req[p].pc = "done" /\ req[p].result = "success") =>
           /\ InsertedRow(req[p]) \in mahasiswaPrivileges
           /\ \E e \in classEnrollments :
                /\ e.id = InsertedRow(req[p]).enrollmentId
                /\ e.userId = req[p].userId /\ e.classId = req[p].classId

\* C13 witness: the Ketua Umum S1 has asked to make S3, whose enrollment in C1 is
\* inactive, the sekretaris of C1 and got NotEnrolled.
C13_Witness ==
  \E p \in Procs :
    /\ Returned(p, "assignMahasiswaPrivilege") /\ req[p].wasKU
    /\ req[p].userId = "S3" /\ req[p].privilegeType = "sekretaris"
    /\ req[p].result = "NotEnrolled"

\* C14: assignMahasiswaPrivilege for ketua_kelompok without a groupId, or for
\* ketua_fan_ilmu without a fanIlmuId, deletes and inserts no row and does not
\* succeed; called by the Ketua Umum for an enrolled target it answers MissingScope.
C14_MissingScopeBeforeWrite ==
  \A p \in Procs :
    (/\ req[p].op = "assignMahasiswaPrivilege"
     /\ \/ req[p].privilegeType = "ketua_kelompok" /\ req[p].groupId = NoId
        \/ req[p].privilegeType = "ketua_fan_ilmu" /\ req[p].fanIlmuId = NoId)
    => /\ ~req[p].mutated
       /\ req[p].result # "success"
       /\ (/\ req[p].pc = "done" /\ req[p].wasKU
           /\ ~NoActiveEnrollment(req[p].userId, req[p].classId))
          => req[p].result = "MissingScope"

\* C14 witness: the Ketua Umum S1 has asked to make S2 a ketua_fan_ilmu without a
\* study area, while S2 leads group G1, and got MissingScope.
C14_Witness ==
  \E p \in Procs :
    /\ Returned(p, "assignMahasiswaPrivilege") /\ req[p].wasKU
    /\ req[p].userId = "S2" /\ req[p].privilegeType = "ketua_fan_ilmu"
    /\ req[p].fanIlmuId = NoId /\ req[p].result = "MissingScope"
    /\ \E x \in ClassRows("C1", "KETUA_KELOMPOK") : x.enrollmentId = "E2"

\* C15: the group of every ketua_kelompok row and the study area of every
\* ketua_fan_ilmu row belong to the row's class, and assignMahasiswaPrivilege
\* given a group or study area of another class fails (the specification names
\* the error MissingScope; a rejected write is tolerated here) and writes nothing.
C15_ScopeBelongsToClass ==
  /\ \A r \in mahasiswaPrivileges :
       /\ r.privilegeType = "KETUA_KELOMPOK" =>
            (r.groupId \in Groups /\ GroupClass[r.groupId] = r.classId)
       /\ r.privilegeType = "KETUA_FAN_ILMU" =>
            (r.fanIlmuId \in FanIlmus /\ FanIlmuClass[r.fanIlmuId] = r.classId)
  /\ \A p \in Procs :
       (/\ Returned(p, "assignMahasiswaPrivilege") /\ req[p].wasKU
        /\ ~NoActiveEnrollment(req[p].userId, req[p].classId)
        /\ \/ req[p].groupId \in Groups /\ GroupClass[req[p].groupId] # req[p].classId
           \/ req[p].fanIlmuId \in FanIlmus
                /\ FanIlmuClass[req[p].fanIlmuId] # req[p].classId)
       => (req[p].result # "success" /\ ~req[p].mutated)

\* The stored rows of the triple a dosen-privilege request names.
RequestedDosenRows(r) ==
  DosenRows(r.userId, r.classId, toDosenPrismaEnum(r.privilegeType))

\* C16: assignDosenPrivilege by an admin for a triple that already has a row
\* returns DuplicateGrant and leaves the dosen-privilege rows as they were;
\* for a triple without a row it goes on to the insert, and a successful call
\* has added exactly one row, of that triple, with assignedBy the acting
\* admin, and nothing else (a write the storage rejects changes nothing).
C16_DuplicateOrExactlyOneRow ==
  [][\A p \in Procs :
       (req[p].op = "assignDosenPrivilege"
        /\ toDosenPrismaEnum(req[p].privilegeType) \in PrismaDosenPrivilegeType)
       => /\ req[p].pc = "findFirst" =>
               IF RequestedDosenRows(req[p]) # {}
               THEN /\ req'[p].pc = "done" /\ req'[p].result = "DuplicateGrant"
                    /\ dosenPrivileges' = dosenPrivileges
               ELSE /\ req'[p].pc = "create"
                    /\ dosenPrivileges' = dosenPrivileges
          /\ req[p].pc = "create" =>
               /\ req'[p].pc = "done"
               /\ \/ /\ req'[p].result = "success"
                     /\ \E row \in dosenPrivileges' \ dosenPrivileges :
                          /\ dosenPrivileges' = dosenPrivileges \cup {row}
                          /\ row.userId = req[p].userId
                          /\ row.classId = req[p].classId
                          /\ row.privilegeType = toDosenPrismaEnum(req[p].privilegeType)
                          /\ row.assignedBy = req[p].actor
                          /\ IsStoredAdmin(req[p].actor)
                  \/ /\ req'[p].result = "Failed"
                     /\ dosenPrivileges' = dosenPrivileges
  ]_vars

C16_Witness ==
  \E p \in Procs :
    /\ Returned(p, "assignDosenPrivilege") /\ req[p].result = "DuplicateGrant"
    /\ \E row \in RequestedDosenRows(req[p]) : row.assignedBy \in {"A1", "A2"}

\* C17: under every interleaving of concurrent assignDosenPrivilege calls, also
\* two calls for one triple that both pass the existence check before either
\* inserts, no state holds two dosen-privilege rows with the same user, class
\* and kind.
C17_OneRowPerTriple ==
  \A r1 \in dosenPrivileges, r2 \in dosenPrivileges :
    (r1.userId = r2.userId /\ r1.classId = r2.classId
     /\ r1.privilegeType = r2.privilegeType) => r1 = r2

\* Two admins asked for the same triple, both were past the existence check,
\* one inserted and the other's insert was rejected.
C17_Witness ==
  \E p \in Procs, q \in Procs :
    /\ Returned(p, "assignDosenPrivilege") /\ Returned(q, "assignDosenPrivilege")
    /\ req[p].actor # req[q].actor
    /\ req[p].userId = req[q].userId /\ req[p].classId = req[q].classId
    /\ req[p].privilegeType = req[q].privilegeType
    /\ req[p].result = "success" /\ req[q].result = "Failed"
    /\ RequestedDosenRows(req[p]) # {}

\* C18: removeDosenPrivilege by an admin, and removeMahasiswaPrivilege by the
\* Ketua Umum for a kind other than ketua_umum, return success and take away
\* exactly the rows of the named grant: when the grant does not exist the store
\* is unchanged, and a second application finds no row and changes nothing.
C18_RemovalIsIdempotent ==
  [][\A p \in Procs :
       /\ (req[p].op = "removeDosenPrivilege" /\ req[p].pc = "deleteMany"
           /\ req[p].privilegeType \in DosenPrivilegeType)
          => LET grant == {r \in dosenPrivileges :
                             /\ r.userId = req[p].userId /\ r.classId = req[p].classId
                             /\ r.privilegeType = ToUpperCase(req[p].privilegeType)}
             IN /\ req'[p].pc = "done" /\ req'[p].result = "success"
                /\ dosenPrivileges' = dosenPrivileges \ grant
                /\ UNCHANGED <<classEnrollments, mahasiswaPrivileges, hafalanRecords>>
       /\ (req[p].op = "removeMahasiswaPrivilege" /\ req[p].pc = "deleteMany"
           /\ req[p].privilegeType \in MahasiswaPrivilegeType)
          => LET grant == {r \in mahasiswaPrivileges :
                             /\ r.enrollmentId = req[p].enrollmentId
                             /\ r.classId = req[p].classId
                             /\ r.privilegeType = ToUpperCase(req[p].privilegeType)}
             IN /\ req'[p].pc = "done" /\ req'[p].result = "success"
                /\ mahasiswaPrivileges' = mahasiswaPrivileges \ grant
                /\ UNCHANGED <<classEnrollments, dosenPrivileges, hafalanRecords>>
  ]_vars

\* The Ketua Umum removed a grant that did not exist and got success.
C18_Witness ==
  \E p \in Procs :
    /\ Returned(p, "removeMahasiswaPrivilege") /\ req[p].wasKU
    /\ req[p].privilegeType \in MahasiswaPrivilegeType
    /\ req[p].result = "success" /\ ~req[p].mutated

\* C19: a step of assignDosenPrivilege or removeDosenPrivilege for (U, C, K)
\* leaves every dosen-privilege row of another user, another class or another
\* kind, and every mahasiswa-privilege row, as it was; so a user keeps the other
\* kinds held in the class (C19_Witness: one of two kinds removed, the other
\* still there).
C19_OtherRowsUntouched ==
  [][\A p \in Procs :
       (req[p].op \in {"assignDosenPrivilege", "removeDosenPrivilege"}
        /\ req'[p] # req[p])
       => /\ mahasiswaPrivileges' = mahasiswaPrivileges
          /\ \A r \in dosenPrivileges \cup dosenPrivileges' :
               (\/ r.userId # req[p].userId
                \/ r.classId # req[p].classId
                \/ r.privilegeType # ToUpperCase(req[p].privilegeType))
               => (r \in dosenPrivileges <=> r \in dosenPrivileges')
  ]_vars

C19_Witness ==
  \E p \in Procs :
    /\ Returned(p, "removeDosenPrivilege")
    /\ req[p].result = "success" /\ req[p].mutated
    /\ \E r \in dosenPrivileges :
         /\ r.userId = req[p].userId /\ r.classId = req[p].classId
         /\ r.privilegeType # ToUpperCase(req[p].privilegeType)
    /\ \E r \in dosenPrivileges : r.userId # req[p].userId
    /\ mahasiswaPrivileges # {}

\* The answers hasMahasiswaPrivilege(userId, classId, privilegeType) can give in
\* the current store: one for each enrollment its first query can return.
hasMahasiswaPrivilegeAnswers(userId, classId, privilegeType) ==
  IF ActiveEnrollments(userId, classId) = {} THEN {FALSE}
  ELSE {PrivilegeRows(e.id, classId, toMahasiswaPrismaEnum(privilegeType)) # {} :
          e \in ActiveEnrollments(userId, classId)}

\* The user an enrollment id belongs to.
EnrollmentUsers(enrollmentId) ==
  {e.userId : e \in {x \in classEnrollments : x.id = enrollmentId}}

\* C20: in the state a successful call returns in (no other operation in
\* between), hasDosenPrivilege(U, C, K) is true after assignDosenPrivilege and
\* false after removeDosenPrivilege; hasMahasiswaPrivilege(T, C, K) is true
\* after assignMahasiswaPrivilege and after assignKetuaUmum, and false after
\* removeMahasiswaPrivilege of T's grant.
C20_RoundTrip ==
  \A p \in Procs :
    (req[p].pc = "done" /\ req[p].result = "success") =>
      /\ req[p].op = "assignDosenPrivilege"
           => hasDosenPrivilege(req[p].userId, req[p].classId, req[p].privilegeType)
      /\ req[p].op = "removeDosenPrivilege"
           => ~hasDosenPrivilege(req[p].userId, req[p].classId, req[p].privilegeType)
      /\ req[p].op = "assignMahasiswaPrivilege"
           => hasMahasiswaPrivilegeAnswers(req[p].userId, req[p].classId,
                                           req[p].privilegeType) = {TRUE}
      /\ req[p].op = "assignKetuaUmum"
           => hasMahasiswaPrivilegeAnswers(req[p].userId, req[p].classId,
                                           "ketua_umum") = {TRUE}
      /\ req[p].op = "removeMahasiswaPrivilege"
           => \A t \in EnrollmentUsers(req[p].enrollmentId) :
                hasMahasiswaPrivilegeAnswers(t, req[p].classId,
                                             req[p].privilegeType) = {FALSE}

\* The rule of a predicate over the rows: the stored kinds that grant it.
GrantingKinds(fn) ==
  CASE fn = "canManageHafalan" -> {"PENGURUS_HAFALAN"}
    [] fn = "canManageMaterialAchievements" -> {"PENGURUS_CAPAIAN_MATERI"}
    [] fn = "canEvaluateClass" -> {"WALI_KELAS", "PENGURUS_KELAS"}
    [] fn = "canManageAttendance" -> {"WALI_KELAS", "DOSEN_PENDAMPING", "PENGURUS_KELAS"}
    [] fn = "canAssignMahasiswaPrivileges" -> {}
    [] fn = "canManageGroups" -> {"WALI_KELAS"}

KetuaUmumCounts(fn) ==
  fn \in {"canManageAttendance", "canAssignMahasiswaPrivileges", "canManageGroups"}

\* The values the rule of fn can take for (userId, classId) in the current store
\* (isKetuaUmum has one answer for each enrollment its first query can return).
RuleValues(fn, userId, classId) ==
  LET dosen == \E r \in dosenPrivileges :
                 /\ r.userId = userId /\ r.classId = classId
                 /\ r.privilegeType \in GrantingKinds(fn)
  IN IF KetuaUmumCounts(fn)
     THEN {dosen \/ a : a \in hasMahasiswaPrivilegeAnswers(userId, classId, "ketua_umum")}
     ELSE {dosen}

\* C21: each predicate of the permissions helper returns the value of its rule
\* over the privilege rows of the (user, class) it is asked about, no kind
\* standing in for another and no row of another class counting, and no step
\* of the evaluation changes a row.
C21_PredicatesEqualTheirRules ==
  [][\A p \in Procs :
       (req[p].op \in PermissionFns /\ req'[p] # req[p])
       => /\ UNCHANGED <<classEnrollments, mahasiswaPrivileges, dosenPrivileges,
                          hafalanRecords>>
          /\ req'[p].pc = "done" =>
               (req'[p].result = "true") \in
                 RuleValues(req[p].op, req[p].userId, req[p].classId)
  ]_vars

\* canManageHafalan answered false for a dosen who holds another kind in the
\* class and pengurus_hafalan in the other class.
C21_Witness ==
  \E p \in Procs :
    /\ Returned(p, "canManageHafalan") /\ req[p].result = "false"
    /\ \E r \in dosenPrivileges :
         /\ r.userId = req[p].userId /\ r.classId = req[p].classId
         /\ r.privilegeType = "WALI_KELAS"
    /\ \E r \in dosenPrivileges :
         /\ r.userId = req[p].userId /\ r.classId # req[p].classId
         /\ r.privilegeType = "PENGURUS_HAFALAN"

GuardedMutations ==
  AdminOnlyOps \cup {"assignMahasiswaPrivilege", "removeMahasiswaPrivilege"}

\* C22: a guarded mutation answers Unauthorized exactly when the session
\* resolves to no acting identity, and an authenticated caller who is not an
\* admin gets Forbidden from assignDosenPrivilege, removeDosenPrivilege and
\* assignKetuaUmum.
C22_UnauthorizedOnlyWithoutIdentity ==
  \A p \in Procs :
    (req[p].pc = "done" /\ req[p].op \in GuardedMutations) =>
      /\ req[p].result = "Unauthorized" <=> getSession(req[p].actor) = NoId
      /\ (req[p].op \in AdminOnlyOps /\ getSession(req[p].actor) # NoId
          /\ ~IsStoredAdmin(req[p].actor))
         => req[p].result = "Forbidden"

\* C23: a call in which a storage lookup failed does not answer Unauthorized,
\* Forbidden, NotEnrolled or a false / empty query result; and a query about a
\* user or a class that does not exist answers false or the empty list without
\* failing.
C23_StorageFailureIsReported ==
  \A p \in Procs :
    req[p].pc = "done" =>
      /\ req[p].storageFailed =>
           req[p].result \notin {"Unauthorized", "Forbidden", "NotEnrolled", "false", "list"}
      /\ (/\ req[p].op \in {"hasDosenPrivilege", "hasMahasiswaPrivilege",
                              "getMahasiswaPrivilegesForClass"}
          /\ ~req[p].storageFailed
          /\ (req[p].userId \notin Users \/ req[p].classId \notin Classes))
         => /\ req[p].result \in {"false", "list"}
            /\ req[p].privileges = {}

\* C24: in every state reached through enrollStudent and removeEnrollment there
\* is at most one enrollment row per (user, class, semester) and at most one
\* ACTIVE enrollment per (user, class).
C24_OneActiveEnrollment ==
  \A e1 \in classEnrollments, e2 \in classEnrollments :
    (e1.userId = e2.userId /\ e1.classId = e2.classId) =>
      /\ e1.semesterId = e2.semesterId => e1 = e2
      /\ (e1.status = "ACTIVE" /\ e2.status = "ACTIVE") => e1 = e2

\* C25: no state holds two mahasiswa-privilege rows with the same enrollment,
\* class and kind; so no enrollment holds ketua_kelompok for two groups or
\* ketua_fan_ilmu for two study areas of the class at once.
C25_OneRowPerEnrollmentAndKind ==
  \A r1 \in mahasiswaPrivileges, r2 \in mahasiswaPrivileges :
    (r1.enrollmentId = r2.enrollmentId /\ r1.classId = r2.classId
     /\ r1.privilegeType = r2.privilegeType) => r1 = r2

\* S2 leads one group and the request to make S2 lead another one has been
\* through its deleteMany and was refused at the insert.
C25_Witness ==
  \E p \in Procs :
    /\ Returned(p, "assignMahasiswaPrivilege") /\ req[p].result = "Failed"
    /\ req[p].privilegeType = "ketua_kelompok"
    /\ \E r \in mahasiswaPrivileges :
         /\ r.enrollmentId = req[p].enrollmentId /\ r.classId = req[p].classId
         /\ r.privilegeType = "KETUA_KELOMPOK" /\ r.groupId # req[p].groupId

\* ----------------------------------------------------- referential integrity
\* An admin and the student S1 assigning privileges in C1 while the admin deletes
\* the class, the enrollment of S2 and the user D1, concurrently.
IntegrityInputs ==
  [ oneAtATime |-> FALSE, actors |-> {"A1", "S1"},
    targets |-> {"S2"}, classes |-> {"C1"}, types |-> {"sekretaris"},
    groupIds |-> {}, fanIlmuIds |-> {},
    dosenTargets |-> {"D1"}, dosenTypes |-> {"wali_kelas"},
    enrollmentIds |-> {"E2"}, deletedClasses |-> {"C1"}, deletedUsers |-> {"D1"} ]

IntegrityNext ==
  \E p \in Procs :
    \/ assignKetuaUmum_requireRole(p, IntegrityInputs)
    \/ assignKetuaUmum_findEnrollment(p)
    \/ assignKetuaUmum_findExisting(p)
    \/ assignKetuaUmum_delete(p)
    \/ assignKetuaUmum_create(p)
    \/ assignMahasiswaPrivilege_getSession(p, IntegrityInputs)
    \/ verifyKetuaUmum_enrollment(p)
    \/ verifyKetuaUmum_privilege(p)
    \/ assignMahasiswaPrivilege_getEnrollmentId(p)
    \/ assignMahasiswaPrivilege_deleteMany(p)
    \/ assignMahasiswaPrivilege_create(p)
    \/ assignDosenPrivilege_requireRole(p, IntegrityInputs)
    \/ assignDosenPrivilege_findFirst(p)
    \/ assignDosenPrivilege_create(p)
    \/ removeEnrollment_requireRole(p, IntegrityInputs)
    \/ removeEnrollment_delete(p)
    \/ deleteClass_requireRole(p, IntegrityInputs)
    \/ deleteClass_delete(p)
    \/ deleteUser_requireRole(p, IntegrityInputs)
    \/ deleteUser_delete(p)
    \/ Return(p)

SpecIntegrity == LeaderInit /\ [][IntegrityNext]_vars

\* C26: under every interleaving of deleteClass, removeEnrollment, deleteUser and
\* the privilege assignments, every dosen-privilege row names an existing user
\* and an existing class, and every mahasiswa-privilege row names an existing
\* class and an existing enrollment of that class.
C26_NoDanglingPrivilegeRow ==
  /\ \A r \in dosenPrivileges : r.userId \in DOMAIN users /\ r.classId \in classes
  /\ \A r \in mahasiswaPrivileges :
       /\ r.classId \in classes
       /\ \E e \in classEnrollments : e.id = r.enrollmentId /\ e.classId = r.classId

\* A deleteClass that removed rows and an assignKetuaUmum that had found the
\* target's enrollment are in flight together, and the insert was rejected
\* because the class is gone.
C26_Witness ==
  \E p \in Procs, q \in Procs :
    /\ req[p].op = "deleteClass" /\ req[p].pc = "done" /\ req[p].result = "success"
    /\ req[q].op = "assignKetuaUmum" /\ req[q].pc = "done" /\ req[q].result = "Failed"
    /\ req[q].enrollmentId # NoId
    /\ req[q].classId \notin classes
    /\ mahasiswaPrivileges = {}

\* C27: every step of assignMahasiswaPrivilege or removeMahasiswaPrivilege that
\* inserts or deletes rows of a kind other than ketua_umum is taken in a store
\* state in which the acting user is the Ketua Umum of the class with an active
\* enrollment.
C27_WritesOnlyWhileKetuaUmum ==
  [][\A p \in Procs :
       (/\ req[p].op \in {"assignMahasiswaPrivilege", "removeMahasiswaPrivilege"}
        /\ req[p].pc \in {"deleteMany", "create"}
        /\ req'[p].pc # req[p].pc
        /\ toMahasiswaPrismaEnum(req[p].privilegeType) # "KETUA_UMUM"
        /\ mahasiswaPrivileges' # mahasiswaPrivileges)
       => isKetuaUmum(req[p].session, req[p].classId)]_vars

\* ------------------------------------------------- reads under interleaving
\* D1 holds pengurus_kelas in C1.
AttendanceInit ==
  /\ classEnrollments = InitEnrollments
  /\ mahasiswaPrivileges = {}
  /\ dosenPrivileges =
       { [ userId |-> "D1", classId |-> "C1", privilegeType |-> "PENGURUS_KELAS",
           assignedBy |-> "A1" ] }
  /\ hafalanRecords = {}
  /\ req = [p \in Procs |-> Idle]
  /\ lastCall = NoCall
  /\ users = SeedUsers
  /\ classes = Classes

\* canManageAttendance is evaluated for D1 and for the student S1 in C1 while
\* the admin assigns and removes D1's wali_kelas and pengurus_kelas rows in C1.
AttendanceInputs ==
  [ oneAtATime |-> FALSE, actors |-> {"A1"}, classes |-> {"C1"},
    dosenTargets |-> {"D1"}, dosenTypes |-> {"wali_kelas", "pengurus_kelas"},
    permissionFns |-> {"canManageAttendance"}, subjects |-> {"D1", "S1"} ]

AttendanceNext ==
  \E p \in Procs :
    \/ DosenStep(p, AttendanceInputs)
    \/ PermissionStep(p, AttendanceInputs)
    \/ Return(p)

SpecAttendance == AttendanceInit /\ [][AttendanceNext]_vars

\* C28: canManageAttendance does not return false for a user whose rule held of
\* every store state between the start and the end of the call.
C28_NoFalseWhileQualified ==
  \A p \in Procs :
    (/\ req[p].op = "canManageAttendance" /\ req[p].pc = "done"
     /\ ~req[p].lapsed)
    => req[p].result = "true"

\* ------------------------------------------------- hafalan records by class
\* S3 is enrolled in C2 as well (E4); D1 holds pengurus_hafalan in C1 only.
HafalanInit ==
  /\ classEnrollments =
       InitEnrollments \cup
         { [id |-> "E4", userId |-> "S3", classId |-> "C2", semesterId |-> "T1",
            status |-> "ACTIVE"] }
  /\ mahasiswaPrivileges = {}
  /\ dosenPrivileges =
       { [ userId |-> "D1", classId |-> "C1", privilegeType |-> "PENGURUS_HAFALAN",
           assignedBy |-> "A1" ] }
  /\ hafalanRecords = {}
  /\ req = [p \in Procs |-> Idle]
  /\ lastCall = NoCall
  /\ users = SeedUsers
  /\ classes = Classes

\* One request at a time, by the admin and by D1, with every choice of the
\* classId, enrollmentId and hafalanId arguments.
HafalanInputs ==
  [ oneAtATime |-> TRUE, actors |-> {"A1", "D1"}, classes |-> {"C1", "C2"},
    enrollmentIds |-> {"E1", "E4"}, statuses |-> {"completed"} ]

HafalanNext ==
  \E p \in Procs :
    \/ createHafalanRecord_getSession(p, HafalanInputs)
    \/ evaluateHafalan_getSession(p, HafalanInputs)
    \/ verifyHafalanPrivilege_hasDosenPrivilege(p)
    \/ createHafalanRecord_create(p)
    \/ evaluateHafalan_update(p)
    \/ Return(p)

SpecHafalan == HafalanInit /\ [][HafalanNext]_vars

\* C29: every hafalan record createHafalanRecord or evaluateHafalan creates or
\* modifies belongs to an enrollment of a class in which the acting user holds
\* pengurus_hafalan, unless the actor is admin.
C29_HafalanWritesStayInClass ==
  [][\A p \in Procs :
       (/\ req[p].op \in {"createHafalanRecord", "evaluateHafalan"}
        /\ req'[p].pc # req[p].pc
        /\ hafalanRecords' # hafalanRecords)
       => \A h \in hafalanRecords' \ hafalanRecords :
            \E e \in classEnrollments :
              /\ e.id = h.enrollmentId
              /\ \/ StoredUserType(req[p].session) = "ADMIN"
                 \/ hasDosenPrivilege(req[p].session, e.classId, "pengurus_hafalan")]_vars

\* ------------------------------------------------ register, createUser, updateUser
\* session.ts 35-42 stringToUserType: the form's lowercase role to the stored enum.
stringToUserType(str) ==
  CASE str = "admin" -> "ADMIN"
    [] str = "dosen" -> "DOSEN"
    [] OTHER -> "MAHASISWA"

\* z.enum(["admin", "dosen", "mahasiswa"]) of registerSchema, createUserSchema
\* and updateUserSchema.
UserTypeValues == {"admin", "dosen", "mahasiswa"}

\* dosen/hafalan.ts 894-928: register validates the form and looks the email up;
\* no session is asked for. A user's email stands for the user's id.
register_findUnique(p, in) ==
  /\ req[p].pc = "idle" /\ Admitted(p, in)
  /\ \E actor \in in.actors, email \in in.emails, userType \in in.userTypes :
       LET r == [Idle EXCEPT !.op = "register", !.actor = actor, !.userId = email,
                             !.userType = userType]
       IN req' = [req EXCEPT ![p] =
                    IF userType \notin UserTypeValues THEN Finish(r, "Invalid")
                    ELSE IF email \in DOMAIN users THEN Finish(r, "EmailTaken")
                    ELSE [r EXCEPT !.pc = "create"]]
  /\ StoreUnchanged

\* The user row a request inserts or writes.
UsersWith(r) ==
  [u \in DOMAIN users \cup {r.userId} |->
     IF u = r.userId THEN stringToUserType(r.userType) ELSE users[u]]

\* 930-961: user.create with the role of the form; the unique index on email
\* rejects a second row (storeOk = FALSE is a storage failure).
register_create(p) ==
  /\ req[p].op = "register" /\ req[p].pc = "create"
  /\ \E storeOk \in BOOLEAN :
       IF storeOk /\ req[p].userId \notin DOMAIN users
       THEN /\ users' = UsersWith(req[p])
            /\ req' = [req EXCEPT ![p] = Finish([req[p] EXCEPT !.mutated = TRUE], "success")]
       ELSE /\ users' = users
            /\ req' = [req EXCEPT ![p] = Finish(req[p], "Failed")]
  /\ UNCHANGED <<classEnrollments, mahasiswaPrivileges, dosenPrivileges, hafalanRecords,
                 lastCall, classes>>

\* admin/users.ts 93-115 and 147-171: createUser or updateUser arrives,
\* requireRole(["admin"]) runs and the form is validated.
userForm_requireRole(p, in) ==
  /\ req[p].pc = "idle" /\ Admitted(p, in)
  /\ \E op \in {"createUser", "updateUser"} :
     \E actor \in in.actors, userType \in in.userTypes,
        userId \in (IF op = "createUser" THEN in.emails ELSE in.targets) :
       LET r == [Idle EXCEPT !.op = op, !.actor = actor, !.userId = userId,
                             !.userType = userType]
       IN req' = [req EXCEPT ![p] =
                    IF requireRole(actor, {"admin"}) # "ok" THEN Finish(r, "Unauthorized")
                    ELSE IF userType \notin UserTypeValues THEN Finish(r, "Invalid")
                    ELSE [r EXCEPT !.session = getSession(actor), !.pc = "findUnique"]]
  /\ StoreUnchanged

\* 119-126 and 175-182: the email lookup; createUser stops on a stored email,
\* updateUser on the email of another user (the form keeps the user's own).
userForm_findUnique(p) ==
  /\ req[p].op \in {"createUser", "updateUser"} /\ req[p].pc = "findUnique"
  /\ req' = [req EXCEPT ![p] =
               IF req[p].op = "createUser" /\ req[p].userId \in DOMAIN users
               THEN Finish(req[p], "EmailTaken")
               ELSE [req[p] EXCEPT !.pc = "write"]]
  /\ StoreUnchanged

\* 128-144 and 184-198: user.create, or user.update({where: {id}}), which throws
\* when the row is missing; both write the role of the form.
userForm_write(p) ==
  /\ req[p].op \in {"createUser", "updateUser"} /\ req[p].pc = "write"
  /\ \E storeOk \in BOOLEAN :
       IF storeOk /\ (req[p].op = "createUser" <=> req[p].userId \notin DOMAIN users)
       THEN /\ users' = UsersWith(req[p])
            /\ req' = [req EXCEPT ![p] = Finish([req[p] EXCEPT !.mutated = TRUE], "success")]
       ELSE /\ users' = users
            /\ req' = [req EXCEPT ![p] = Finish(req[p], "Failed")]
  /\ UNCHANGED <<classEnrollments, mahasiswaPrivileges, dosenPrivileges, hafalanRecords,
                 lastCall, classes>>

\* One request at a time, by the admin, the dosen, the student S2 and a caller
\* without a cookie, for the new email U1 and the stored user S1, with every
\* role of the form and a value outside the enum.
UserInputs ==
  [ oneAtATime |-> TRUE, actors |-> {"A1", "D1", "S2", NoId},
    emails |-> {"U1"}, targets |-> {"S1"},
    userTypes |-> {"admin", "mahasiswa", "root"} ]

UserNext ==
  \E p \in Procs :
    \/ register_findUnique(p, UserInputs)
    \/ register_create(p)
    \/ userForm_requireRole(p, UserInputs)
    \/ userForm_findUnique(p)
    \/ userForm_write(p)
    \/ Return(p)

SpecUsers == Init /\ [][UserNext]_vars

Admins == {u \in DOMAIN users : users[u] = "ADMIN"}

\* C30: a step that changes the set of admins, or the role of an existing user,
\* is taken by a request whose caller is an authenticated admin.
C30_AdminsChangeOnlyByAdmin ==
  [][\A p \in Procs :
       (/\ req'[p].pc # req[p].pc
        /\ \/ Admins' # Admins
           \/ \E u \in DOMAIN users \cap DOMAIN users' : users'[u] # users[u])
       => IsStoredAdmin(req[p].session)]_vars
====
